---- MODULE Spec2Model ----
(***************************************************************************)
(* A state-machine model of the CyberSec-Game scene engine                 *)
(* (src/game/app.py, scenes.py, save_system.py, input.py).                 *)
(*                                                                         *)
(* One frame of App.run is three steps: handle_input of the current scene, *)
(* update of the (possibly new) current scene, draw.  Scenes are records   *)
(* with a `kind`; a scene that overlays another keeps it in return_scene.  *)
(*                                                                         *)
(* Units.  Pixel coordinates are integers (pygame.Rect).  The product      *)
(* PLAYER_SPEED * dt of one frame is counted in 1/SubPx pixel units, so    *)
(* that fractional per-frame distances and their truncation by int() are   *)
(* part of the model.  The camera is kept in half pixels (x2), since       *)
(* player.w * 0.5 and view_w * 0.5 are halves.  Zoom and the target        *)
(* coordinates of a portal are kept in tenths.                             *)
(*                                                                         *)
(* The maps, dialogues and quiz sets are small documents that stand for    *)
(* the data files: what _colliders(), _npcs(), _portals(), _books(),       *)
(* _load_dialogue() and _load_challenge_set() return.  Each specification  *)
(* below plays the same actions on one of them.                            *)
(***************************************************************************)
EXTENDS Integers, Sequences, FiniteSets, TLC

VARIABLES
    running,      \* App.run: the loop flag
    crash,        \* "none", or the exception that ended the process
    pc,           \* position in the frame: "input", "update", "draw"
    scene,        \* App.scene: the current scene object
    save,         \* App.save: the in-memory save document
    disk,         \* the content of data/saves/slot1.json
    fs_ok,        \* environment: whether a write of the save file succeeds
    input_state,  \* App.input_state: the snapshot built this frame
    events,       \* run(): the frame's KEYDOWN events for K_UP / K_DOWN
    dt,           \* run(): PLAYER_SPEED * dt of this frame, in 1/SubPx px
    screen,       \* what the last draw() put on the screen
    hist          \* history: what the frame and the running quiz have recorded

vars == <<running, crash, pc, scene, save, disk, fs_ok, input_state, events, dt, screen, hist>>

(***************************************************************************)
(* Program constants.                                                      *)
(***************************************************************************)
\* game/constants.py is not among the sources; sizes are chosen small.
PLAYER_W == 2
PLAYER_H == 2
SCREEN_W == 320
SCREEN_H == 240

NPC_RADIUS == 48
PORTAL_RADIUS == 70
BOOK_RADIUS == 60
MIN_VIEW_W == 160
MIN_VIEW_H == 120
ZOOM_MIN == 10
ZOOM_MAX == 25
BEST_D_INIT == 999999999

(***************************************************************************)
(* Bounds of the model.                                                    *)
(***************************************************************************)
SubPx == 2          \* sub-pixel units per pixel of PLAYER_SPEED * dt
MaxDist == 7        \* largest PLAYER_SPEED * dt of a frame, in 1/SubPx px
MaxTrust == 1       \* |trust[npc]| explored up to this value
MaxPoints == 12     \* Results points and max explored up to this value
MaxTotal == 3       \* scores.total explored up to this value

NoScene == [kind |-> "none"]
NoLabel == ""

(***************************************************************************)
(* scenes.py: clamp, dist_sq, and the pygame.Rect operations used.         *)
(***************************************************************************)
clamp(v, lo, hi) == IF v < lo THEN lo ELSE IF v > hi THEN hi ELSE v

dist_sq(ax, ay, bx, by) == (ax - bx) * (ax - bx) + (ay - by) * (ay - by)

Rect(x, y, w, h) == [x |-> x, y |-> y, w |-> w, h |-> h]

\* pygame.Rect.colliderect: a strict overlap; a rect of no area overlaps nothing.
colliderect(a, b) ==
    /\ a.w > 0 /\ a.h > 0 /\ b.w > 0 /\ b.h > 0
    /\ a.x < b.x + b.w /\ b.x < a.x + a.w
    /\ a.y < b.y + b.h /\ b.y < a.y + a.h

\* pygame.Rect.centerx / centery
centerx(r) == r.x + (r.w \div 2)
centery(r) == r.y + (r.h \div 2)

Max(a, b) == IF a >= b THEN a ELSE b

Min(a, b) == IF a <= b THEN a ELSE b

(***************************************************************************)
(* Values of the save document's player.x / player.y: a number, a missing  *)
(* key, or a string that float() rejects.                                  *)
(***************************************************************************)
Num(n) == [t |-> "num", v |-> n]
Missing == [t |-> "missing", v |-> 0]
BadStr == [t |-> "str", v |-> 0]

(***************************************************************************)
(* Map documents (data/maps/<id>.json, or GeneratedMap): the geometry the  *)
(* World scene reads through _world_bounds, _colliders, _npcs, _portals,   *)
(* _books and _map_default_zoom.  The maps are test data.                  *)
(***************************************************************************)
Npc(id, dialogue, r) == [npc_id |-> id, dialogue |-> dialogue, rect |-> r]

\* A portal; target_x, target_y and target_zoom are in tenths.
Portal(r, target_map, tx, ty, tzoom, prompt) ==
    [rect |-> r, target_map |-> target_map, target_x |-> tx, target_y |-> ty,
     target_zoom |-> tzoom, prompt |-> prompt]

Book(r, title, prompt) == [rect |-> r, title |-> title, prompt |-> prompt]

\* "lab": an open room with two thin walls one pixel apart and a block.
LabMap ==
    [pixel_w |-> 14, pixel_h |-> 8, default_zoom |-> 10,
     colliders |-> << Rect(6, 0, 1, 4), Rect(8, 0, 1, 4), Rect(10, 5, 3, 3) >>,
     npcs |-> << >>, portals |-> << >>, books |-> << >>]

\* A corridor two pixels high from x = left, `room` pixels long, walled in
\* by four colliders, in a world of w x h pixels with the corridor at y = top.
Corridor(w, h, left, top, room) ==
    << Rect(0, 0, left, h), Rect(left + room, 0, w - left - room, h),
       Rect(left, 0, room, top), Rect(left, top + PLAYER_H, room, h - top - PLAYER_H) >>

\* "city": a corridor at the default spawn (200, 200) with one person and
\* the door of the house.
CityMap ==
    [pixel_w |-> 212, pixel_h |-> 206, default_zoom |-> 10,
     colliders |-> Corridor(212, 206, 199, 200, 4),
     npcs |-> << Npc("guide", "npc_guide", Rect(198, 200, 2, 2)) >>,
     portals |-> << Portal(Rect(202, 200, 2, 2), "house_1", 200, 100, 16, "Press E to enter") >>,
     books |-> << >>]

\* "house_1": a corridor with one book and the door back, whose target is
\* (200.5, 200.0).
HouseMap ==
    [pixel_w |-> 30, pixel_h |-> 20, default_zoom |-> 16,
     colliders |-> Corridor(30, 20, 19, 10, 4),
     npcs |-> << >>,
     portals |-> << Portal(Rect(18, 10, 2, 2), "city", 2005, 2000, 10, "") >>,
     books |-> << Book(Rect(22, 10, 2, 2), "Phishing Basics", "") >>]

\* "park": a corridor between two people to talk to.
ParkMap ==
    [pixel_w |-> 20, pixel_h |-> 12, default_zoom |-> 10,
     colliders |-> Corridor(20, 12, 8, 5, 4),
     npcs |-> << Npc("aya", "npc_aya", Rect(7, 5, 2, 2)),
                 Npc("mika", "", Rect(11, 5, 2, 2)) >>,
     portals |-> << >>, books |-> << >>]

\* "school": a corridor with the person who starts the quiz at one end and
\* the person who starts the quiz without questions at the other.
SchoolMap ==
    [pixel_w |-> 20, pixel_h |-> 12, default_zoom |-> 10,
     colliders |-> Corridor(20, 12, 8, 5, 3),
     npcs |-> << Npc("sensei", "npc_sensei", Rect(8, 5, 2, 2)),
                 Npc("clerk", "npc_clerk", Rect(10, 5, 2, 2)) >>,
     portals |-> << >>, books |-> << >>]

\* "plaza": a corridor crossed by a portal and a book 400 pixels tall, whose
\* centres are farther away than their radius, each with a small one of the
\* other kind close by, and a person standing in the tall portal.
PlazaMap ==
    [pixel_w |-> 40, pixel_h |-> 400, default_zoom |-> 10,
     colliders |-> Corridor(40, 400, 2, 4, 20),
     npcs |-> << Npc("kai", "npc_aya", Rect(6, 4, 2, 2)) >>,
     portals |-> << Portal(Rect(10, 4, 2, 2), "", 0, 0, 0, "small door"),
                    Portal(Rect(6, 0, 2, 400), "", 0, 0, 0, "tall door") >>,
     books |-> << Book(Rect(18, 4, 2, 2), "Notes", "small book"),
                  Book(Rect(14, 0, 2, 400), "Poster", "tall book") >>]

\* An open room of rw x rh pixels at (left, top), walled in by four
\* colliders, in a world of w x h pixels.
Room(w, h, left, top, rw, rh) ==
    << Rect(0, 0, left, h), Rect(left + rw, 0, w - left - rw, h),
       Rect(left, 0, rw, top), Rect(left, top + rh, rw, h - top - rh) >>

\* "field": larger than the 160 x 120 viewport of zoom 2.0 on both axes.
FieldMap ==
    [pixel_w |-> 170, pixel_h |-> 130, default_zoom |-> 20,
     colliders |-> Room(170, 130, 78, 58, 16, 16),
     npcs |-> << >>, portals |-> << >>, books |-> << >>]

\* "strip": at zoom 2.5 the viewport is floored to 160 x 120, wider than
\* the world is tall.
StripMap ==
    [pixel_w |-> 170, pixel_h |-> 100, default_zoom |-> 25,
     colliders |-> Room(170, 100, 78, 58, 16, 16),
     npcs |-> << >>, portals |-> << >>, books |-> << >>]

\* "office": no room to walk, and one person to talk to.
OfficeMap ==
    [pixel_w |-> 20, pixel_h |-> 12, default_zoom |-> 10,
     colliders |-> Corridor(20, 12, 8, 5, 2),
     npcs |-> << Npc("dean", "npc_dean", Rect(8, 5, 2, 2)) >>,
     portals |-> << >>, books |-> << >>]

\* "hall": a corridor with two people, each starting a quiz of one question.
HallMap ==
    [pixel_w |-> 20, pixel_h |-> 12, default_zoom |-> 10,
     colliders |-> Corridor(20, 12, 8, 5, 3),
     npcs |-> << Npc("proctor", "npc_proctor", Rect(8, 5, 2, 2)),
                 Npc("tutor", "npc_tutor", Rect(10, 5, 2, 2)) >>,
     portals |-> << >>, books |-> << >>]

\* "road": a corridor a hundred pixels long with a person, a portal and a
\* book at its near end, none of them touching the corridor, and a tall
\* portal and a tall book across its far end.
RoadMap ==
    [pixel_w |-> 140, pixel_h |-> 400, default_zoom |-> 10,
     colliders |-> Corridor(140, 400, 8, 5, 100),
     npcs |-> << Npc("ren", "npc_aya", Rect(8, 5, 2, 2)) >>,
     portals |-> << Portal(Rect(8, 0, 2, 2), "", 0, 0, 0, "gate"),
                    Portal(Rect(90, 0, 2, 400), "", 0, 0, 0, "tall gate") >>,
     books |-> << Book(Rect(8, 9, 2, 2), "Sign", "sign"),
                  Book(Rect(100, 0, 2, 400), "Banner", "tall sign") >>]

Map(map_id) ==
    CASE map_id = "lab" -> LabMap
      [] map_id = "road" -> RoadMap
      [] map_id = "hall" -> HallMap
      [] map_id = "office" -> OfficeMap
      [] map_id = "field" -> FieldMap
      [] map_id = "strip" -> StripMap
      [] map_id = "plaza" -> PlazaMap
      [] map_id = "city" -> CityMap
      [] map_id = "house_1" -> HouseMap
      [] map_id = "park" -> ParkMap
      [] map_id = "school" -> SchoolMap

(***************************************************************************)
(* WorldScene                                                              *)
(***************************************************************************)
PlayerRect(w) == Rect(w.x, w.y, PLAYER_W, PLAYER_H)

\* WorldScene._move_and_collide, the loop over the colliders: on an overlap
\* the player is pushed back along the axis just moved.
RECURSIVE PushBack(_, _, _, _, _)
PushBack(p, cs, i, sx, sy) ==
    IF i > Len(cs) THEN p
    ELSE LET c == cs[i]
             hit == colliderect(Rect(p.x, p.y, PLAYER_W, PLAYER_H), c)
             qx == IF hit /\ sx > 0 THEN c.x - PLAYER_W
                   ELSE IF hit /\ sx < 0 THEN c.x + c.w
                   ELSE p.x
             qy == IF hit /\ sy > 0 THEN c.y - PLAYER_H
                   ELSE IF hit /\ sy < 0 THEN c.y + c.h
                   ELSE p.y
         IN PushBack([x |-> qx, y |-> qy], cs, i + 1, sx, sy)

\* WorldScene._move_and_collide(dx, dy) on position p of map m.  sx, sy are
\* the signs of dx, dy and ix, iy are int(dx), int(dy).
_move_and_collide(p, m, sx, ix, sy, iy) ==
    IF sx = 0 /\ sy = 0 THEN p
    ELSE LET moved == [x |-> p.x + ix, y |-> p.y + iy]
             inside == [x |-> clamp(moved.x, 0, m.pixel_w - PLAYER_W),
                        y |-> clamp(moved.y, 0, m.pixel_h - PLAYER_H)]
         IN PushBack(inside, m.colliders, 1, sx, sy)

\* int(v * PLAYER_SPEED * dt) for |v| = 1: truncation of d / SubPx.
StraightStep(d) == d \div SubPx

\* int(v * PLAYER_SPEED * dt) for |v| = 1 / sqrt(2): the largest k with
\* k * sqrt(2) <= d / SubPx.
DiagStep(d) == CHOOSE k \in 0..d : /\ 2 * k * k * SubPx * SubPx <= d * d
                                   /\ 2 * (k + 1) * (k + 1) * SubPx * SubPx > d * d

\* WorldScene.update, lines 452-466: the intent vector of the snapshot.
IntentX(st) == (IF st.right THEN 1 ELSE 0) - (IF st.left THEN 1 ELSE 0)
IntentY(st) == (IF st.down THEN 1 ELSE 0) - (IF st.up THEN 1 ELSE 0)

\* The sign of dx = vx * PLAYER_SPEED * dt and int(dx); the same for dy.
AxisStep(v, other, d) ==
    IF v = 0 \/ d = 0 THEN 0
    ELSE IF other # 0 THEN v * DiagStep(d) ELSE v * StraightStep(d)

AxisSign(v, d) == IF d = 0 THEN 0 ELSE v

ViewW(zoom) == Max(MIN_VIEW_W, (SCREEN_W * 10) \div zoom)
ViewH(zoom) == Max(MIN_VIEW_H, (SCREEN_H * 10) \div zoom)

\* A variant of the camera that is clamped at 0 only.
CameraXFromZero(w, m) == Max(0, 2 * w.x + PLAYER_W - ViewW(w.zoom))

\* WorldScene.update, lines 474-487: the camera, in half pixels.
CameraX(w, m) ==
    clamp(2 * w.x + PLAYER_W - ViewW(w.zoom), 0, 2 * Max(0, m.pixel_w - ViewW(w.zoom)))
CameraY(w, m) ==
    clamp(2 * w.y + PLAYER_H - ViewH(w.zoom), 0, 2 * Max(0, m.pixel_h - ViewH(w.zoom)))

\* The player after the x step of WorldScene.update.
AfterXStep(w, st, d) ==
    _move_and_collide([x |-> w.x, y |-> w.y], Map(w.map_id),
                      AxisSign(IntentX(st), d), AxisStep(IntentX(st), IntentY(st), d), 0, 0)

\* The player after the y step that follows it.
AfterYStep(w, st, d) ==
    _move_and_collide(AfterXStep(w, st, d), Map(w.map_id),
                      0, 0, AxisSign(IntentY(st), d), AxisStep(IntentY(st), IntentX(st), d))

\* WorldScene.update: the scene after the two axis steps and the camera.
WorldUpdated(w, st, d) ==
    LET p == AfterYStep(w, st, d)
        moved == [w EXCEPT !.x = p.x, !.y = p.y]
    IN [moved EXCEPT !.camera_x = CameraX(moved, Map(w.map_id)),
                     !.camera_y = CameraY(moved, Map(w.map_id))]

\* WorldScene.update, lines 489-491: what it writes to the save document.
WorldUpdateSave(sv, w) ==
    [sv EXCEPT !.world = [map |-> w.map_id],
               !.player = [x |-> Num(w.x), y |-> Num(w.y)]]

(***************************************************************************)
(* The interaction resolver.  A result is [kind, idx, dist]: idx is the    *)
(* place of the object in its list (_npcs(), _portals(), _books()) and     *)
(* kind = "none" stands for None.                                          *)
(***************************************************************************)
NoneNear == [kind |-> "none", idx |-> 0, dist |-> 0]

CenterDist(pr, r) == dist_sq(centerx(pr), centery(pr), centerx(r), centery(r))

\* WorldScene._closest_npc: the loop, from npc i on, with best / best_d so far.
RECURSIVE ClosestNpcLoop(_, _, _, _, _)
ClosestNpcLoop(pr, npcs, i, best, best_d) ==
    IF i > Len(npcs) THEN best
    ELSE LET d == CenterDist(pr, npcs[i].rect)
         IN IF d <= best_d THEN ClosestNpcLoop(pr, npcs, i + 1, i, d)
            ELSE ClosestNpcLoop(pr, npcs, i + 1, best, best_d)

\* A variant of _closest_npc without the radius.
_closest_npc_anywhere(pr, m, max_dist) == ClosestNpcLoop(pr, m.npcs, 1, 0, BEST_D_INIT)

_closest_npc(pr, m, max_dist) == ClosestNpcLoop(pr, m.npcs, 1, 0, max_dist * max_dist)

\* WorldScene._closest_portal and _closest_book: the same loop over a list of
\* rectangles, returning at once on an overlap with the player.
RECURSIVE ClosestRectLoop(_, _, _, _, _)
ClosestRectLoop(pr, objs, i, best, best_d) ==
    IF i > Len(objs) THEN best
    ELSE IF colliderect(pr, objs[i].rect) THEN i
    ELSE LET d == CenterDist(pr, objs[i].rect)
         IN IF d <= best_d THEN ClosestRectLoop(pr, objs, i + 1, i, d)
            ELSE ClosestRectLoop(pr, objs, i + 1, best, best_d)

_closest_portal(pr, m, max_dist) == ClosestRectLoop(pr, m.portals, 1, 0, max_dist * max_dist)

_closest_book(pr, m, max_dist) == ClosestRectLoop(pr, m.books, 1, 0, max_dist * max_dist)

\* A variant of lines 576 and 584 without the overlap case.
CenterDistOnly(pr, r) == CenterDist(pr, r)

\* Lines 576 and 584: d = 0.0 on an overlap, the centre distance otherwise.
EffectiveDist(pr, r) == IF colliderect(pr, r) THEN 0 ELSE CenterDist(pr, r)

\* WorldScene._nearest_interactable, lines 566-571: the person.
NearestAfterNpc(pr, m) ==
    LET npc == _closest_npc(pr, m, NPC_RADIUS)
    IN IF npc # 0
       THEN [kind |-> "npc", idx |-> npc, dist |-> CenterDist(pr, m.npcs[npc].rect),
             best_d |-> CenterDist(pr, m.npcs[npc].rect)]
       ELSE [kind |-> "none", idx |-> 0, dist |-> 0, best_d |-> BEST_D_INIT]

\* Lines 573-579: the transition zone replaces it when strictly closer.
NearestAfterPortal(pr, m) ==
    LET prev == NearestAfterNpc(pr, m)
        portal == _closest_portal(pr, m, PORTAL_RADIUS)
        d == IF portal # 0 THEN EffectiveDist(pr, m.portals[portal].rect) ELSE 0
    IN IF portal # 0 /\ d < prev.best_d
       THEN [kind |-> "portal", idx |-> portal, dist |-> d, best_d |-> d]
       ELSE prev

\* Lines 581-587: the readable replaces that when strictly closer.
NearestAfterBook(pr, m) ==
    LET prev == NearestAfterPortal(pr, m)
        book == _closest_book(pr, m, BOOK_RADIUS)
        d == IF book # 0 THEN EffectiveDist(pr, m.books[book].rect) ELSE 0
    IN IF book # 0 /\ d < prev.best_d
       THEN [kind |-> "book", idx |-> book, dist |-> d, best_d |-> d]
       ELSE prev

\* WorldScene._nearest_interactable of world scene w.
_nearest_interactable(w) ==
    LET r == NearestAfterBook(PlayerRect(w), Map(w.map_id))
    IN [kind |-> r.kind, idx |-> r.idx, dist |-> r.dist]

(***************************************************************************)
(* save_system.py.  The in-memory document is                              *)
(*   [world |-> [map], player |-> [x, y], trust, scores, completed |->     *)
(*    [challenges]]                                                        *)
(* with trust and scores functions from keys to integers.  The file is     *)
(* [kind, doc]: kind says what json.load makes of it ("absent": no file,   *)
(* "garbage": not JSON, "null" / "number" / "emptylist": JSON that is no   *)
(* object, "object"), and doc gives for each top-level key whether it is   *)
(* absent, a value of another type ("other") or of the expected type.      *)
(***************************************************************************)
EmptyMap == [k \in {} |-> 0]

MapPut(f, k, v) == [n \in DOMAIN f \cup {k} |-> IF n = k THEN v ELSE f[n]]

\* dict.get(k, default)
MapGet(f, k, default) == IF k \in DOMAIN f THEN f[k] ELSE default

DefaultScores ==
    [k \in {"total", "phishing", "password", "links", "mfa"} |-> 0]

default_save ==
    [world |-> [map |-> "city"],
     player |-> [x |-> Num(200), y |-> Num(200)],
     trust |-> EmptyMap,
     scores |-> DefaultScores,
     completed |-> [challenges |-> << >>]]

JWorld(t, has_map, map) == [t |-> t, has_map |-> has_map, map |-> map]
JPlayer(t, x, y) == [t |-> t, x |-> x, y |-> y]
JMap(t, v) == [t |-> t, v |-> v]
JCompleted(t, ct, challenges) == [t |-> t, ct |-> ct, challenges |-> challenges]

JDoc(world, player, trust, scores, completed) ==
    [world |-> world, player |-> player, trust |-> trust, scores |-> scores,
     completed |-> completed]

\* The object with no keys.
EmptyJDoc ==
    JDoc(JWorld("absent", FALSE, ""), JPlayer("absent", Missing, Missing),
         JMap("absent", EmptyMap), JMap("absent", EmptyMap),
         JCompleted("absent", "absent", << >>))

File(kind, doc) == [kind |-> kind, doc |-> doc]

NoFile == File("absent", EmptyJDoc)

\* A variant of json.dump(data) that leaves the trust map out of the file.
json_dump_without_trust(sv) ==
    File("object",
         JDoc(JWorld("dict", TRUE, sv.world.map),
              JPlayer("dict", sv.player.x, sv.player.y),
              JMap("absent", EmptyMap),
              JMap("dict", sv.scores),
              JCompleted("dict", "list", sv.completed.challenges)))

\* json.dump(data): the object written for an in-memory document.
json_dump(sv) ==
    File("object",
         JDoc(JWorld("dict", TRUE, sv.world.map),
              JPlayer("dict", sv.player.x, sv.player.y),
              JMap("dict", sv.trust),
              JMap("dict", sv.scores),
              JCompleted("dict", "list", sv.completed.challenges)))

\* save_game(data) with the file dk on disk: the file afterwards, and the
\* exception when the write fails.
save_game(sv, dk, ok) ==
    IF ok THEN [disk |-> json_dump(sv), crash |-> "none"]
    ELSE [disk |-> dk, crash |-> "OSError"]

\* load_save, lines 41-64: the normalisation of a parsed object.
Normalized(d) ==
    [world |-> [map |-> IF d.world.t = "dict" /\ d.world.has_map
                        THEN d.world.map ELSE "city"],
     player |-> IF d.player.t = "dict" THEN [x |-> d.player.x, y |-> d.player.y]
                ELSE [x |-> Num(200), y |-> Num(200)],
     trust |-> IF d.trust.t = "dict" THEN d.trust.v ELSE EmptyMap,
     scores |-> IF d.scores.t = "dict" THEN d.scores.v ELSE DefaultScores,
     completed |-> [challenges |-> IF d.completed.t = "dict" /\ d.completed.ct = "list"
                                   THEN d.completed.challenges ELSE << >>]]

\* load_save(): the document returned, or the exception raised.
load_save(dk) ==
    CASE dk.kind \in {"absent", "garbage"} -> [save |-> default_save, crash |-> "none"]
      [] dk.kind \in {"null", "number"} -> [save |-> default_save, crash |-> "TypeError"]
      [] dk.kind = "emptylist" -> [save |-> default_save, crash |-> "none"]
      [] dk.kind = "object" -> [save |-> Normalized(dk.doc), crash |-> "none"]

(***************************************************************************)
(* Dialogue and quiz documents (data/dialogues/*.json,                     *)
(* data/challenges/<id>.json): test data.  A node is                       *)
(* [text, choices, next, action]: next = "" and action = "" stand for an   *)
(* absent field, action is the challenge_set of a start_challenge action.  *)
(***************************************************************************)
Choice(trust_delta, next) == [trust_delta |-> trust_delta, next |-> next]

Node(text, choices, next, action) ==
    [text |-> text, choices |-> choices, next |-> next, action |-> action]

\* nodes.get(node_id, {}) of a missing node: the empty dict.
EmptyNode == Node("", << >>, "", "")

\* npc_aya.json: a line, then a choice of three: one leads on, one has no
\* next, one names a node that does not exist.  (The default dialogue of an
\* NPC without one, line 407.)
AyaDialogue ==
    [start_node |-> "intro",
     nodes |-> [n \in {"intro", "ask", "thanks"} |->
        CASE n = "intro" -> Node("hello", << >>, "ask", "")
          [] n = "ask" -> Node("ready?", << Choice(1, "thanks"), Choice(-1, ""), Choice(0, "gone") >>, "", "")
          [] n = "thanks" -> Node("thanks", << >>, "", "")]]

\* npc_guide.json: two lines, the second naming a next node that is missing.
GuideDialogue ==
    [start_node |-> "intro",
     nodes |-> [n \in {"intro", "tip"} |->
        CASE n = "intro" -> Node("welcome", << >>, "tip", "")
          [] n = "tip" -> Node("find the house", << >>, "end", "")]]

\* npc_sensei.json: a line, then the node that starts the quiz.
SenseiDialogue ==
    [start_node |-> "intro",
     nodes |-> [n \in {"intro", "quiz"} |->
        CASE n = "intro" -> Node("test time", << >>, "quiz", "")
          [] n = "quiz" -> Node("go", << >>, "", "phishing_1")]]

\* npc_clerk.json: the start node itself starts a quiz, the one that has no
\* questions.
ClerkDialogue ==
    [start_node |-> "desk",
     nodes |-> [n \in {"desk"} |-> Node("forms", << >>, "", "blank_1")]]

\* npc_dean.json: a line, then a choice of four: one leads to the node that
\* starts the quiz without questions, one names a node that does not exist,
\* one leads to a line whose next does not exist, one to a choice of two.
DeanDialogue ==
    [start_node |-> "intro",
     nodes |-> [n \in {"intro", "offer", "test", "bye", "again"} |->
        CASE n = "intro" -> Node("come in", << >>, "offer", "")
          [] n = "offer" -> Node("a test?", << Choice(1, "test"), Choice(-1, "later"),
                                              Choice(0, "bye"), Choice(0, "again") >>,
                                 "", "")
          [] n = "again" -> Node("sure?", << Choice(0, "offer"), Choice(0, "bye") >>, "", "")
          [] n = "test" -> Node("go", << >>, "", "blank_1")
          [] n = "bye" -> Node("bye", << >>, "out", "")]]

\* npc_proctor.json, npc_tutor.json: the start node starts a quiz.
ProctorDialogue ==
    [start_node |-> "sit",
     nodes |-> [n \in {"sit"} |-> Node("sit down", << >>, "", "totals_1")]]

TutorDialogue ==
    [start_node |-> "sit",
     nodes |-> [n \in {"sit"} |-> Node("sit down", << >>, "", "urls_1")]]

Dialogue(path) ==
    CASE path = "npc_aya" -> AyaDialogue
      [] path = "npc_proctor" -> ProctorDialogue
      [] path = "npc_tutor" -> TutorDialogue
      [] path = "npc_dean" -> DeanDialogue
      [] path = "npc_clerk" -> ClerkDialogue
      [] path = "npc_guide" -> GuideDialogue
      [] path = "npc_sensei" -> SenseiDialogue

Question(nchoices, correct_index, points) ==
    [nchoices |-> nchoices, correct_index |-> correct_index, points |-> points]

Challenge(set_id) ==
    CASE set_id = "phishing_1" ->
        [title |-> "Phishing", category |-> "phishing",
         questions |-> << Question(2, 1, 1), Question(3, 0, 2) >>]
      [] set_id = "blank_1" ->
        [title |-> "Blank", category |-> "phishing", questions |-> << >>]
      [] set_id = "urls_1" ->
        [title |-> "Links", category |-> "urls", questions |-> << Question(2, 1, 1) >>]
      [] set_id = "totals_1" ->
        [title |-> "Totals", category |-> "total", questions |-> << Question(2, 1, 1) >>]

ChallengeIds == {"phishing_1", "blank_1", "urls_1", "totals_1"}

(***************************************************************************)
(* Scene objects.                                                          *)
(***************************************************************************)
MenuScene == [kind |-> "menu", sel |-> 0]

\* The result of a handler or constructor: the scene itself after the call,
\* SceneResult.next_scene and .quit_game, the save document and the file
\* after it, the exception it raised, and for the history the branch taken.
Eff(self, next, quit, sv, dk, cr, tag) ==
    [self |-> self, next |-> next, quit |-> quit, save |-> sv, disk |-> dk,
     crash |-> cr, tag |-> tag]

\* float(v) of a player.x / player.y value: the exception, if any.
FloatError(v) ==
    IF v.t = "missing" THEN "KeyError" ELSE IF v.t = "str" THEN "ValueError" ELSE "none"

\* A variant of int() that rounds to the nearest integer.
IntRounded(v) == IF v >= 0 THEN (v + 5) \div 10 ELSE -((5 - v) \div 10)

\* Line 316: int() of a number given in tenths truncates toward zero.
IntOfTenths(v) == IF v >= 0 THEN v \div 10 ELSE -((-v) \div 10)

\* WorldScene.__init__(app, map_id, spawn_xy, zoom).  map_id = "" and
\* zoom = 0 stand for None; has_spawn says whether spawn_xy, in tenths of a
\* pixel, is given.
\* The result is [scene, save, crash].
WorldScene(sv, map_id, has_spawn, sx, sy, zoom) ==
    LET mid == IF map_id = "" THEN sv.world.map ELSE map_id
        sv1 == [sv EXCEPT !.world = [map |-> mid]]
        err == IF has_spawn THEN "none"
               ELSE IF FloatError(sv.player.x) # "none" THEN FloatError(sv.player.x)
               ELSE FloatError(sv.player.y)
        px == IF has_spawn THEN IntOfTenths(sx) ELSE sv.player.x.v
        py == IF has_spawn THEN IntOfTenths(sy) ELSE sv.player.y.v
        z == IF zoom # 0 THEN zoom ELSE Map(mid).default_zoom
    IN [scene |-> [kind |-> "world", map_id |-> mid, x |-> px, y |-> py,
                   zoom |-> clamp(z, ZOOM_MIN, ZOOM_MAX),
                   camera_x |-> 0, camera_y |-> 0,
                   near_npc_label |-> NoLabel, near_portal_label |-> NoLabel,
                   near_book_label |-> NoLabel],
        save |-> sv1,
        crash |-> err]

DialogueScene(return_scene, dialogue_path, npc_id) ==
    [kind |-> "dialogue", return_scene |-> return_scene,
     dialogue_path |-> dialogue_path, npc_id |-> npc_id,
     node_id |-> Dialogue(dialogue_path).start_node, selected_choice |-> 0]

InfoScene(return_scene, title) ==
    [kind |-> "info", return_scene |-> return_scene, title |-> title]

RECURSIVE SumPoints(_, _)
SumPoints(qs, i) == IF i > Len(qs) THEN 0 ELSE qs[i].points + SumPoints(qs, i + 1)

\* ChallengeScene.__init__: max_points is summed once, here.
ChallengeScene(return_scene, challenge_set_id) ==
    [kind |-> "challenge", return_scene |-> return_scene,
     challenge_set_id |-> challenge_set_id,
     title |-> Challenge(challenge_set_id).title,
     category |-> Challenge(challenge_set_id).category,
     qi |-> 0, selected |-> 0, showing_feedback |-> FALSE, last_correct |-> FALSE,
     points_earned |-> 0,
     max_points |-> SumPoints(Challenge(challenge_set_id).questions, 1)]

ResultsScene(return_scene, title, points, max_points) ==
    [kind |-> "results", return_scene |-> return_scene, title |-> title,
     points |-> points, max_points |-> max_points]

\* A variant of _grade whose thresholds are exclusive.
GradeAbove(points, max_points) ==
    IF max_points <= 0 THEN "N/A"
    ELSE IF points * 100 > 90 * max_points THEN "S"
    ELSE IF points * 100 > 80 * max_points THEN "A"
    ELSE IF points * 100 > 70 * max_points THEN "B"
    ELSE IF points * 100 > 60 * max_points THEN "C"
    ELSE "D"

\* ResultsScene._grade: pct = points * 100.0 / max_points compared with
\* 90.0, 80.0, 70.0, 60.0; for max_points > 0, pct >= t is
\* points * 100 >= t * max_points.
_grade(points, max_points) ==
    IF max_points <= 0 THEN "N/A"
    ELSE IF points * 100 >= 90 * max_points THEN "S"
    ELSE IF points * 100 >= 80 * max_points THEN "A"
    ELSE IF points * 100 >= 70 * max_points THEN "B"
    ELSE IF points * 100 >= 60 * max_points THEN "C"
    ELSE "D"

\* What draw() puts on the screen, as far as modelled: the prompt of the
\* World scene (lines 644-649: the NPC's, else the book's, else the
\* portal's), the grade of the Results scene, and which scene drew.
Blank == [scene_kind |-> "", label |-> NoLabel, grade |-> ""]

Drawn(self) ==
    CASE self.kind = "world" ->
           [Blank EXCEPT !.scene_kind = "world", !.label =
               IF self.near_npc_label # NoLabel THEN self.near_npc_label
               ELSE IF self.near_book_label # NoLabel THEN self.near_book_label
               ELSE self.near_portal_label]
      [] self.kind = "results" ->
           [Blank EXCEPT !.scene_kind = "results",
                         !.grade = _grade(self.points, self.max_points)]
      [] OTHER -> [Blank EXCEPT !.scene_kind = self.kind]

(***************************************************************************)
(* handle_input of each scene, as the result of the call on scene `self`   *)
(* with snapshot st and key events ev, save document sv, file dk and       *)
(* write outcome ok.                                                       *)
(***************************************************************************)
\* The sum of -1 for each K_UP and +1 for each K_DOWN of the frame.
RECURSIVE KeySteps(_, _)
KeySteps(ev, i) ==
    IF i > Len(ev) THEN 0
    ELSE (IF ev[i] = "K_UP" THEN -1 ELSE IF ev[i] = "K_DOWN" THEN 1 ELSE 0)
         + KeySteps(ev, i + 1)

\* MenuScene.handle_input, lines 77-82: (sel -+ 1) % 3 for each event.
MenuSel(sel, ev) == (sel + KeySteps(ev, 1)) % 3

\* A variant of MenuScene.handle_input whose Load Game starts from the
\* default document instead of the file.
MenuHandleLoadsDefault(self, st, ev, sv, dk, ok) ==
    LET me == [self EXCEPT !.sel = MenuSel(self.sel, ev)]
    IN IF st.confirm_pressed /\ me.sel = 0 THEN
           LET w == save_game(default_save, dk, ok)
               c == WorldScene(default_save, "", FALSE, 0, 0, 0)
           IN IF w.crash # "none"
              THEN Eff(me, NoScene, FALSE, default_save, w.disk, w.crash, "menu.new_game")
              ELSE Eff(me, c.scene, FALSE, c.save, w.disk, c.crash, "menu.new_game")
       ELSE IF st.confirm_pressed /\ me.sel = 1 THEN
           LET c == WorldScene(default_save, "", FALSE, 0, 0, 0)
           IN Eff(me, c.scene, FALSE, c.save, dk, c.crash, "menu.load_game")
       ELSE IF st.confirm_pressed /\ me.sel = 2 THEN
           Eff(me, NoScene, TRUE, sv, dk, "none", "menu.quit")
       ELSE Eff(me, NoScene, FALSE, sv, dk, "none", "menu.idle")

\* MenuScene.handle_input
MenuHandle(self, st, ev, sv, dk, ok) ==
    LET me == [self EXCEPT !.sel = MenuSel(self.sel, ev)]
    IN IF st.confirm_pressed /\ me.sel = 0 THEN
           LET w == save_game(default_save, dk, ok)
               c == WorldScene(default_save, "", FALSE, 0, 0, 0)
           IN IF w.crash # "none"
              THEN Eff(me, NoScene, FALSE, default_save, w.disk, w.crash, "menu.new_game")
              ELSE Eff(me, c.scene, FALSE, c.save, w.disk, c.crash, "menu.new_game")
       ELSE IF st.confirm_pressed /\ me.sel = 1 THEN
           LET l == load_save(dk)
               c == WorldScene(l.save, "", FALSE, 0, 0, 0)
           IN IF l.crash # "none"
              THEN Eff(me, NoScene, FALSE, sv, dk, l.crash, "menu.load_game")
              ELSE Eff(me, c.scene, FALSE, c.save, dk, c.crash, "menu.load_game")
       ELSE IF st.confirm_pressed /\ me.sel = 2 THEN
           Eff(me, NoScene, TRUE, sv, dk, "none", "menu.quit")
       ELSE Eff(me, NoScene, FALSE, sv, dk, "none", "menu.idle")

\* Lines 388-389, 432-433: save["player"] = the player's position.
WithPlayer(sv, w) == [sv EXCEPT !.player = [x |-> Num(w.x), y |-> Num(w.y)]]

\* Line 412: the portal's prompt, or the default of the map.
PortalPrompt(portal, map_id) ==
    IF portal.prompt # "" THEN portal.prompt
    ELSE IF map_id = "city" THEN "Press E to enter" ELSE "Press E to exit"

\* Line 441: the book's prompt, or the default.
BookPrompt(book) == IF book.prompt # "" THEN book.prompt ELSE "Press E to read"

\* Line 407: the NPC's dialogue, or the default one.
DialoguePath(npc) == IF npc.dialogue # "" THEN npc.dialogue ELSE "npc_aya"

\* A variant of lines 387-391 that saves and stays in the World scene.
WorldCancelStays(self, sv, dk, ok) ==
    LET sv1 == WithPlayer(sv, self)
        w == save_game(sv1, dk, ok)
    IN Eff(self, NoScene, FALSE, sv1, w.disk, w.crash, "world.cancel")

\* WorldScene.handle_input, lines 387-391: cancel.
WorldCancel(self, sv, dk, ok) ==
    LET sv1 == WithPlayer(sv, self)
        w == save_game(sv1, dk, ok)
    IN Eff(self, IF w.crash = "none" THEN MenuScene ELSE NoScene, FALSE,
           sv1, w.disk, w.crash, "world.cancel")

\* A variant of lines 411-436 that writes the file after the World scene
\* of the target map is constructed.
WorldPortalSavesAfter(self, portal, st, sv, dk, ok) ==
    LET me == [self EXCEPT !.near_portal_label = PortalPrompt(portal, self.map_id)]
        sv1 == WithPlayer(sv, self)
        c == WorldScene(sv1, portal.target_map, TRUE, portal.target_x, portal.target_y,
                        portal.target_zoom)
        w == save_game(c.save, dk, ok)
    IN IF st.interact_pressed /\ portal.target_map # "" THEN
           IF w.crash # "none"
           THEN Eff(me, NoScene, FALSE, sv1, w.disk, w.crash, "world.portal")
           ELSE Eff(me, c.scene, FALSE, c.save, w.disk, c.crash, "world.portal")
       ELSE Eff(me, NoScene, FALSE, sv, dk, "none", "world.near_portal")

\* WorldScene.handle_input, lines 411-436: the portal branch.
WorldPortal(self, portal, st, sv, dk, ok) ==
    LET me == [self EXCEPT !.near_portal_label = PortalPrompt(portal, self.map_id)]
        sv1 == WithPlayer(sv, self)
        w == save_game(sv1, dk, ok)
        c == WorldScene(sv1, portal.target_map, TRUE, portal.target_x, portal.target_y,
                        portal.target_zoom)
    IN IF st.interact_pressed /\ portal.target_map # "" THEN
           IF w.crash # "none"
           THEN Eff(me, NoScene, FALSE, sv1, w.disk, w.crash, "world.portal")
           ELSE Eff(me, c.scene, FALSE, c.save, w.disk, c.crash, "world.portal")
       ELSE Eff(me, NoScene, FALSE, sv, dk, "none", "world.near_portal")

\* A variant of WorldScene.handle_input without lines 393-395, which unset
\* the three labels.
WorldHandleKeepsLabels(self, st, ev, sv, dk, ok) ==
    IF st.cancel_pressed THEN WorldCancel(self, sv, dk, ok)
    ELSE
    LET nearest == _nearest_interactable(self)
        m == Map(self.map_id)
    IN CASE nearest.kind = "none" ->
              Eff(self, NoScene, FALSE, sv, dk, "none", "world.none")
         [] nearest.kind = "npc" ->
              Eff([self EXCEPT !.near_npc_label = m.npcs[nearest.idx].npc_id],
                  NoScene, FALSE, sv, dk, "none", "world.near_npc")
         [] nearest.kind = "portal" ->
              WorldPortal(self, m.portals[nearest.idx], st, sv, dk, ok)
         [] nearest.kind = "book" ->
              Eff([self EXCEPT !.near_book_label = BookPrompt(m.books[nearest.idx])],
                  NoScene, FALSE, sv, dk, "none", "world.near_book")

\* WorldScene.handle_input
WorldHandle(self, st, ev, sv, dk, ok) ==
    IF st.cancel_pressed THEN WorldCancel(self, sv, dk, ok)
    ELSE
    LET me == [self EXCEPT !.near_npc_label = NoLabel, !.near_portal_label = NoLabel,
                           !.near_book_label = NoLabel]
        nearest == _nearest_interactable(self)
        m == Map(self.map_id)
    IN CASE nearest.kind = "none" ->
              Eff(me, NoScene, FALSE, sv, dk, "none", "world.none")
         [] nearest.kind = "npc" ->
              LET npc == m.npcs[nearest.idx]
                  lab == [me EXCEPT !.near_npc_label = npc.npc_id]
              IN IF st.interact_pressed
                 THEN Eff(lab, DialogueScene(lab, DialoguePath(npc), npc.npc_id), FALSE,
                          sv, dk, "none", "world.talk")
                 ELSE Eff(lab, NoScene, FALSE, sv, dk, "none", "world.near_npc")
         [] nearest.kind = "portal" ->
              WorldPortal(me, m.portals[nearest.idx], st, sv, dk, ok)
         [] nearest.kind = "book" ->
              LET book == m.books[nearest.idx]
                  lab == [me EXCEPT !.near_book_label = BookPrompt(book)]
              IN IF st.interact_pressed
                 THEN Eff(lab, InfoScene(lab, book.title), FALSE, sv, dk, "none", "world.read")
                 ELSE Eff(lab, NoScene, FALSE, sv, dk, "none", "world.near_book")

\* InfoScene.handle_input
InfoHandle(self, st, ev, sv, dk, ok) ==
    IF st.cancel_pressed \/ st.confirm_pressed \/ st.interact_pressed
    THEN Eff(self, self.return_scene, FALSE, sv, dk, "none", "info.close")
    ELSE Eff(self, NoScene, FALSE, sv, dk, "none", "info.idle")

\* ResultsScene.handle_input
ResultsHandle(self, st, ev, sv, dk, ok) ==
    IF st.confirm_pressed \/ st.cancel_pressed
    THEN Eff(self, self.return_scene, FALSE, sv, dk, "none", "results.close")
    ELSE Eff(self, NoScene, FALSE, sv, dk, "none", "results.idle")

\* self.nodes.get(self.node_id, {})
NodeOf(self) ==
    LET nodes == Dialogue(self.dialogue_path).nodes
    IN IF self.node_id \in DOMAIN nodes THEN nodes[self.node_id] ELSE EmptyNode

\* A variant of lines 726-736 and 919-929 in which the selection wraps
\* around.
SelectedWrapping(sel, ev, n) == (sel + KeySteps(ev, 1)) % n

\* Lines 726-736 and 919-929: the selection after the frame's key events,
\* clamped once after all of them to [0, n - 1].
Selected(sel, ev, n) ==
    LET moved == sel + KeySteps(ev, 1)
        low == IF moved < 0 THEN 0 ELSE moved
    IN IF low >= n THEN n - 1 ELSE low

\* A variant of lines 740-742 that overwrites the entry with the delta
\* instead of adding to it.
TrustOverwritten(trust, npc_id, trust_delta) == MapPut(trust, npc_id, trust_delta)

\* Lines 740-742: trust[npc_id] = int(trust.get(npc_id, 0)) + trust_delta
TrustAfter(trust, npc_id, trust_delta) ==
    MapPut(trust, npc_id, MapGet(trust, npc_id, 0) + trust_delta)

\* A variant of lines 760-771 that hands the quiz the dialogue itself as the
\* scene to return to.
DialogueTailReturnsToSelf(self, node, sv, dk, ok, tag) ==
    LET w == save_game(sv, dk, ok)
    IN IF node.action # "" THEN
           Eff(self,
               IF w.crash = "none" THEN ChallengeScene(self, node.action) ELSE NoScene,
               FALSE, sv, w.disk, w.crash, "dialogue.start_challenge")
       ELSE IF node = EmptyNode THEN
           Eff(self, IF w.crash = "none" THEN self.return_scene ELSE NoScene,
               FALSE, sv, w.disk, w.crash, "dialogue.end")
       ELSE Eff(self, NoScene, FALSE, sv, dk, "none", tag)

\* A variant of lines 760-771 without the end of the dialogue on an empty
\* node.
DialogueTailNoEnd(self, node, sv, dk, ok, tag) ==
    LET w == save_game(sv, dk, ok)
    IN IF node.action # "" THEN
           Eff(self,
               IF w.crash = "none"
               THEN ChallengeScene(self.return_scene, node.action) ELSE NoScene,
               FALSE, sv, w.disk, w.crash, "dialogue.start_challenge")
       ELSE Eff(self, NoScene, FALSE, sv, dk, "none", tag)

\* DialogueScene.handle_input, lines 760-771: what follows the node's own
\* step when that step did not return: the node's action, then the end of
\* the dialogue on an empty node.
DialogueTail(self, node, sv, dk, ok, tag) ==
    LET w == save_game(sv, dk, ok)
    IN IF node.action # "" THEN
           Eff(self,
               IF w.crash = "none"
               THEN ChallengeScene(self.return_scene, node.action) ELSE NoScene,
               FALSE, sv, w.disk, w.crash, "dialogue.start_challenge")
       ELSE IF node = EmptyNode THEN
           Eff(self, IF w.crash = "none" THEN self.return_scene ELSE NoScene,
               FALSE, sv, w.disk, w.crash, "dialogue.end")
       ELSE Eff(self, NoScene, FALSE, sv, dk, "none", tag)

\* A variant of lines 752-757 that never follows `next`.
DialogueTextStays(self, node, st, sv, dk, ok) ==
    DialogueTail(self, node, sv, dk, ok, "dialogue.idle")

\* DialogueScene.handle_input, lines 752-757: a node without choices.
DialogueText(self, node, st, sv, dk, ok) ==
    IF st.confirm_pressed /\ node.next # "" THEN
        Eff([self EXCEPT !.node_id = node.next], NoScene, FALSE, sv, dk, "none",
            "dialogue.next")
    ELSE DialogueTail(self, node, sv, dk, ok, "dialogue.idle")

\* A variant of DialogueScene.handle_input in which a node's action comes
\* before cancel.
DialogueHandleActionFirst(self, st, ev, sv, dk, ok) ==
    LET node == NodeOf(self)
        w == save_game(sv, dk, ok)
    IN IF node.action # "" THEN DialogueTail(self, node, sv, dk, ok, "dialogue.idle")
       ELSE IF st.cancel_pressed THEN
           Eff(self, IF w.crash = "none" THEN self.return_scene ELSE NoScene,
               FALSE, sv, w.disk, w.crash, "dialogue.cancel")
       ELSE IF Len(node.choices) > 0 THEN
           LET me == [self EXCEPT !.selected_choice =
                          Selected(self.selected_choice, ev, Len(node.choices))]
               choice == node.choices[me.selected_choice + 1]
               sv1 == [sv EXCEPT !.trust = TrustAfter(sv.trust, self.npc_id, choice.trust_delta)]
           IN IF ~st.confirm_pressed THEN DialogueTail(me, node, sv, dk, ok, "dialogue.idle")
              ELSE IF choice.next # "" THEN
                  Eff([me EXCEPT !.node_id = choice.next, !.selected_choice = 0],
                      NoScene, FALSE, sv1, dk, "none", "dialogue.choice")
              ELSE DialogueTail(me, node, sv1, dk, ok, "dialogue.choice")
       ELSE DialogueText(self, node, st, sv, dk, ok)

\* A variant of DialogueScene.handle_input without line 746, which sets the
\* selection to 0 when a choice leads on.
DialogueHandleKeepsSelection(self, st, ev, sv, dk, ok) ==
    LET node == NodeOf(self)
        w == save_game(sv, dk, ok)
    IN IF st.cancel_pressed THEN
           Eff(self, IF w.crash = "none" THEN self.return_scene ELSE NoScene,
               FALSE, sv, w.disk, w.crash, "dialogue.cancel")
       ELSE IF Len(node.choices) > 0 THEN
           LET me == [self EXCEPT !.selected_choice =
                          Selected(self.selected_choice, ev, Len(node.choices))]
               choice == node.choices[me.selected_choice + 1]
               sv1 == [sv EXCEPT !.trust = TrustAfter(sv.trust, self.npc_id, choice.trust_delta)]
           IN IF ~st.confirm_pressed THEN DialogueTail(me, node, sv, dk, ok, "dialogue.idle")
              ELSE IF choice.next # "" THEN
                  Eff([me EXCEPT !.node_id = choice.next],
                      NoScene, FALSE, sv1, dk, "none", "dialogue.choice")
              ELSE DialogueTail(me, node, sv1, dk, ok, "dialogue.choice")
       ELSE DialogueText(self, node, st, sv, dk, ok)

\* A variant of DialogueScene.handle_input whose cancel returns without
\* line 719, the save_game call.
DialogueHandleCancelUnsaved(self, st, ev, sv, dk, ok) ==
    LET node == NodeOf(self)
    IN IF st.cancel_pressed THEN
           Eff(self, self.return_scene, FALSE, sv, dk, "none", "dialogue.cancel")
       ELSE IF Len(node.choices) > 0 THEN
           LET me == [self EXCEPT !.selected_choice =
                          Selected(self.selected_choice, ev, Len(node.choices))]
               choice == node.choices[me.selected_choice + 1]
               sv1 == [sv EXCEPT !.trust = TrustAfter(sv.trust, self.npc_id, choice.trust_delta)]
           IN IF ~st.confirm_pressed THEN DialogueTail(me, node, sv, dk, ok, "dialogue.idle")
              ELSE IF choice.next # "" THEN
                  Eff([me EXCEPT !.node_id = choice.next, !.selected_choice = 0],
                      NoScene, FALSE, sv1, dk, "none", "dialogue.choice")
              ELSE DialogueTail(me, node, sv1, dk, ok, "dialogue.choice")
       ELSE DialogueText(self, node, st, sv, dk, ok)

\* DialogueScene.handle_input
DialogueHandle(self, st, ev, sv, dk, ok) ==
    LET node == NodeOf(self)
        w == save_game(sv, dk, ok)
    IN IF st.cancel_pressed THEN
           Eff(self, IF w.crash = "none" THEN self.return_scene ELSE NoScene,
               FALSE, sv, w.disk, w.crash, "dialogue.cancel")
       ELSE IF Len(node.choices) > 0 THEN
           LET me == [self EXCEPT !.selected_choice =
                          Selected(self.selected_choice, ev, Len(node.choices))]
               choice == node.choices[me.selected_choice + 1]
               sv1 == [sv EXCEPT !.trust = TrustAfter(sv.trust, self.npc_id, choice.trust_delta)]
           IN IF ~st.confirm_pressed THEN DialogueTail(me, node, sv, dk, ok, "dialogue.idle")
              ELSE IF choice.next # "" THEN
                  Eff([me EXCEPT !.node_id = choice.next, !.selected_choice = 0],
                      NoScene, FALSE, sv1, dk, "none", "dialogue.choice")
              ELSE DialogueTail(me, node, sv1, dk, ok, "dialogue.choice")
       ELSE DialogueText(self, node, st, sv, dk, ok)

\* A variant of lines 932-937 that awards the points whatever was selected.
AwardedRegardless(q, selected) == q.points

\* Lines 932-937: the points a confirm awards for question q.
Awarded(q, selected) == IF selected = q.correct_index THEN q.points ELSE 0

\* A variant of lines 938-940 that credits the points to every entry of
\* scores.
ScoresAfterEveryEntry(scores, category, pts) ==
    [k \in DOMAIN scores \cup {"total", category} |-> MapGet(scores, k, 0) + pts]

\* Lines 938-940: scores["total"] and scores[category] after an award.
ScoresAfter(scores, category, pts) ==
    LET s1 == MapPut(scores, "total", MapGet(scores, "total", 0) + pts)
    IN MapPut(s1, category, MapGet(s1, category, 0) + pts)

\* A variant of lines 912-914 without the membership test.
CompletedAppended(comp, set_id) == Append(comp, set_id)

\* Lines 912-914: completed.challenges after the set is finished.
CompletedAfter(comp, set_id) ==
    IF \E i \in 1..Len(comp) : comp[i] = set_id THEN comp ELSE Append(comp, set_id)

\* A variant of lines 906-917 that moves on whether or not confirm is pressed.
ChallengeFeedbackAnyInput(self, st, sv, dk, ok) ==
    LET qs == Challenge(self.challenge_set_id).questions
        me == [self EXCEPT !.showing_feedback = FALSE, !.selected = 0, !.qi = self.qi + 1]
    IN IF me.qi >= Len(qs) THEN
           Eff(me, ResultsScene(self.return_scene, self.title, self.points_earned,
                                self.max_points),
               FALSE, sv, dk, "none", "challenge.finish")
       ELSE Eff(me, NoScene, FALSE, sv, dk, "none", "challenge.next")

\* A variant of lines 906-917 whose test for the end of the questions is
\* qi > len(questions).
ChallengeFeedbackLate(self, st, sv, dk, ok) ==
    LET qs == Challenge(self.challenge_set_id).questions
        me == [self EXCEPT !.showing_feedback = FALSE, !.selected = 0, !.qi = self.qi + 1]
        sv1 == [sv EXCEPT !.completed =
                   [challenges |-> CompletedAfter(sv.completed.challenges, self.challenge_set_id)]]
        w == save_game(sv1, dk, ok)
    IN IF ~st.confirm_pressed THEN Eff(self, NoScene, FALSE, sv, dk, "none", "challenge.feedback")
       ELSE IF me.qi > Len(qs) THEN
           Eff(me,
               IF w.crash = "none"
               THEN ResultsScene(self.return_scene, self.title, self.points_earned, self.max_points)
               ELSE NoScene,
               FALSE, sv1, w.disk, w.crash, "challenge.finish")
       ELSE Eff(me, NoScene, FALSE, sv, dk, "none", "challenge.next")

\* ChallengeScene.handle_input, lines 906-917: in Feedback.
ChallengeFeedback(self, st, sv, dk, ok) ==
    LET qs == Challenge(self.challenge_set_id).questions
        me == [self EXCEPT !.showing_feedback = FALSE, !.selected = 0, !.qi = self.qi + 1]
        sv1 == [sv EXCEPT !.completed =
                   [challenges |-> CompletedAfter(sv.completed.challenges, self.challenge_set_id)]]
        w == save_game(sv1, dk, ok)
    IN IF ~st.confirm_pressed THEN Eff(self, NoScene, FALSE, sv, dk, "none", "challenge.feedback")
       ELSE IF me.qi >= Len(qs) THEN
           Eff(me,
               IF w.crash = "none"
               THEN ResultsScene(self.return_scene, self.title, self.points_earned, self.max_points)
               ELSE NoScene,
               FALSE, sv1, w.disk, w.crash, "challenge.finish")
       ELSE Eff(me, NoScene, FALSE, sv, dk, "none", "challenge.next")

\* A variant of lines 919-944 whose confirm evaluates the answer and moves
\* on to the next question in the same call.
ChallengeAnsweringAdvances(self, st, ev, sv, dk, ok) ==
    LET q == Challenge(self.challenge_set_id).questions[self.qi + 1]
        me == [self EXCEPT !.selected = Selected(self.selected, ev, q.nchoices)]
        pts == Awarded(q, me.selected)
        correct == me.selected = q.correct_index
        sv1 == IF correct
               THEN [sv EXCEPT !.scores = ScoresAfter(sv.scores, self.category, pts)]
               ELSE sv
        w == save_game(sv1, dk, ok)
    IN IF ~st.confirm_pressed THEN Eff(me, NoScene, FALSE, sv, dk, "none", "challenge.select")
       ELSE Eff([me EXCEPT !.last_correct = correct,
                           !.points_earned = me.points_earned + pts,
                           !.showing_feedback = TRUE,
                           !.qi = self.qi + 1],
                NoScene, FALSE, sv1, w.disk, w.crash, "challenge.answer")

\* ChallengeScene.handle_input, lines 919-944: in Answering.
ChallengeAnswering(self, st, ev, sv, dk, ok) ==
    LET q == Challenge(self.challenge_set_id).questions[self.qi + 1]
        me == [self EXCEPT !.selected = Selected(self.selected, ev, q.nchoices)]
        pts == Awarded(q, me.selected)
        correct == me.selected = q.correct_index
        sv1 == IF correct
               THEN [sv EXCEPT !.scores = ScoresAfter(sv.scores, self.category, pts)]
               ELSE sv
        w == save_game(sv1, dk, ok)
    IN IF ~st.confirm_pressed THEN Eff(me, NoScene, FALSE, sv, dk, "none", "challenge.select")
       ELSE Eff([me EXCEPT !.last_correct = correct,
                           !.points_earned = me.points_earned + pts,
                           !.showing_feedback = TRUE],
                NoScene, FALSE, sv1, w.disk, w.crash, "challenge.answer")

\* A variant of ChallengeScene.handle_input in which a quiz without
\* questions waits for confirm.
ChallengeHandleEmptyOnConfirm(self, st, ev, sv, dk, ok) ==
    LET w == save_game(sv, dk, ok)
    IN IF st.cancel_pressed THEN
           Eff(self, IF w.crash = "none" THEN self.return_scene ELSE NoScene,
               FALSE, sv, w.disk, w.crash, "challenge.cancel")
       ELSE IF Len(Challenge(self.challenge_set_id).questions) = 0 THEN
           Eff(self,
               IF st.confirm_pressed
               THEN ResultsScene(self.return_scene, self.title, self.points_earned,
                                 self.max_points)
               ELSE NoScene,
               FALSE, sv, dk, "none", "challenge.empty")
       ELSE IF self.showing_feedback THEN ChallengeFeedback(self, st, sv, dk, ok)
       ELSE ChallengeAnswering(self, st, ev, sv, dk, ok)

\* A variant of ChallengeScene.handle_input that looks at the question list
\* before it looks at cancel.
ChallengeHandleEmptyFirst(self, st, ev, sv, dk, ok) ==
    LET w == save_game(sv, dk, ok)
    IN IF Len(Challenge(self.challenge_set_id).questions) = 0 THEN
           Eff(self, ResultsScene(self.return_scene, self.title, self.points_earned,
                                  self.max_points),
               FALSE, sv, dk, "none", "challenge.empty")
       ELSE IF st.cancel_pressed THEN
           Eff(self, IF w.crash = "none" THEN self.return_scene ELSE NoScene,
               FALSE, sv, w.disk, w.crash, "challenge.cancel")
       ELSE IF self.showing_feedback THEN ChallengeFeedback(self, st, sv, dk, ok)
       ELSE ChallengeAnswering(self, st, ev, sv, dk, ok)

\* A variant of ChallengeScene.handle_input whose cancel records the set as
\* completed.
ChallengeHandleCancelCompletes(self, st, ev, sv, dk, ok) ==
    LET sv1 == [sv EXCEPT !.completed =
                   [challenges |-> CompletedAfter(sv.completed.challenges, self.challenge_set_id)]]
        w == save_game(sv1, dk, ok)
    IN IF st.cancel_pressed THEN
           Eff(self, IF w.crash = "none" THEN self.return_scene ELSE NoScene,
               FALSE, sv1, w.disk, w.crash, "challenge.cancel")
       ELSE IF Len(Challenge(self.challenge_set_id).questions) = 0 THEN
           Eff(self, ResultsScene(self.return_scene, self.title, self.points_earned,
                                  self.max_points),
               FALSE, sv, dk, "none", "challenge.empty")
       ELSE IF self.showing_feedback THEN ChallengeFeedback(self, st, sv, dk, ok)
       ELSE ChallengeAnswering(self, st, ev, sv, dk, ok)

\* ChallengeScene.handle_input
ChallengeHandle(self, st, ev, sv, dk, ok) ==
    LET w == save_game(sv, dk, ok)
    IN IF st.cancel_pressed THEN
           Eff(self, IF w.crash = "none" THEN self.return_scene ELSE NoScene,
               FALSE, sv, w.disk, w.crash, "challenge.cancel")
       ELSE IF Len(Challenge(self.challenge_set_id).questions) = 0 THEN
           Eff(self, ResultsScene(self.return_scene, self.title, self.points_earned,
                                  self.max_points),
               FALSE, sv, dk, "none", "challenge.empty")
       ELSE IF self.showing_feedback THEN ChallengeFeedback(self, st, sv, dk, ok)
       ELSE ChallengeAnswering(self, st, ev, sv, dk, ok)

\* scene.handle_input(input_state, events) of the current scene.
Handle(self, st, ev, sv, dk, ok) ==
    CASE self.kind = "menu" -> MenuHandle(self, st, ev, sv, dk, ok)
      [] self.kind = "world" -> WorldHandle(self, st, ev, sv, dk, ok)
      [] self.kind = "info" -> InfoHandle(self, st, ev, sv, dk, ok)
      [] self.kind = "dialogue" -> DialogueHandle(self, st, ev, sv, dk, ok)
      [] self.kind = "challenge" -> ChallengeHandle(self, st, ev, sv, dk, ok)
      [] self.kind = "results" -> ResultsHandle(self, st, ev, sv, dk, ok)

(***************************************************************************)
(* The history variable: the branch the last handle_input took, the        *)
(* selection at each confirm of the running quiz, and how often each quiz  *)
(* set has been finished (counted up to 2), and the target of the portal   *)
(* triggered in the current frame, and the node the Dialogue scene was at  *)
(* when it handled the frame.                                              *)
(***************************************************************************)
NoTarget == [map |-> "", x |-> 0, y |-> 0]

HistInit ==
    [tag |-> "init", set_id |-> "", answers |-> << >>,
     finished |-> [c \in ChallengeIds |-> 0], target |-> NoTarget, node |-> ""]

HistAfter(h, self, e) ==
    LET t == [h EXCEPT !.tag = e.tag, !.target = NoTarget,
                       !.node = IF self.kind = "dialogue" THEN self.node_id ELSE ""]
    IN IF e.crash # "none" THEN t
       ELSE IF e.tag = "world.portal"
       THEN LET portal == Map(self.map_id).portals[_nearest_interactable(self).idx]
            IN [t EXCEPT !.target = [map |-> portal.target_map, x |-> portal.target_x,
                                     y |-> portal.target_y]]
       ELSE IF e.tag = "dialogue.start_challenge"
       THEN [t EXCEPT !.set_id = e.next.challenge_set_id, !.answers = << >>]
       ELSE IF e.tag = "challenge.answer"
       THEN [t EXCEPT !.answers = Append(h.answers, e.self.selected)]
       ELSE IF e.tag = "challenge.finish"
       THEN [t EXCEPT !.finished[self.challenge_set_id] = Min(2, @ + 1)]
       ELSE t

(***************************************************************************)
(* Frames: the input of one iteration of App.run.                          *)
(***************************************************************************)
Snapshot(up, down, left, right, interact, confirm, cancel) ==
    [up |-> up, down |-> down, left |-> left, right |-> right,
     interact_pressed |-> interact, confirm_pressed |-> confirm,
     cancel_pressed |-> cancel]

Idle == Snapshot(FALSE, FALSE, FALSE, FALSE, FALSE, FALSE, FALSE)

Frame(st, ev, d) == [st |-> st, events |-> ev, dt |-> d]

\* Every combination of the movement keys with every frame distance.
MoveFrames ==
    { Frame(Snapshot(u, d, l, r, FALSE, FALSE, FALSE), << >>, n) :
        u \in BOOLEAN, d \in BOOLEAN, l \in BOOLEAN, r \in BOOLEAN, n \in 0..MaxDist }

\* One-pixel steps to the left and to the right, and one diagonal.
WalkFrames ==
    { Frame(Snapshot(FALSE, FALSE, TRUE, FALSE, FALSE, FALSE, FALSE), << >>, SubPx),
      Frame(Snapshot(FALSE, FALSE, FALSE, TRUE, FALSE, FALSE, FALSE), << >>, SubPx),
      Frame(Snapshot(FALSE, TRUE, FALSE, TRUE, FALSE, FALSE, FALSE), << >>, SubPx + 1) }

Press(interact, confirm, cancel, ev) ==
    Frame(Snapshot(FALSE, FALSE, FALSE, FALSE, interact, confirm, cancel), ev, 0)

\* The edge-triggered keys, alone and together, the arrow keys, and
\* interact while walking to the right.
ButtonFrames ==
    { Press(FALSE, FALSE, FALSE, << >>),
      Press(TRUE, FALSE, FALSE, << >>),
      Press(FALSE, TRUE, FALSE, << >>),
      Press(FALSE, FALSE, TRUE, << >>),
      Press(FALSE, TRUE, TRUE, << >>),
      Press(TRUE, TRUE, FALSE, << >>),
      Press(FALSE, FALSE, FALSE, << "K_UP" >>),
      Press(FALSE, FALSE, FALSE, << "K_DOWN" >>),
      Press(FALSE, TRUE, FALSE, << "K_DOWN" >>),
      Press(FALSE, FALSE, FALSE, << "K_DOWN", "K_DOWN" >>),
      Frame(Snapshot(FALSE, FALSE, FALSE, TRUE, TRUE, FALSE, FALSE), << >>, SubPx) }

PlayFrames == WalkFrames \cup ButtonFrames

\* The bounds on the explored values of trust and scores.
WithinBounds(sv) ==
    /\ \A n \in DOMAIN sv.trust : sv.trust[n] <= MaxTrust /\ sv.trust[n] >= -MaxTrust
    /\ MapGet(sv.scores, "total", 0) <= MaxTotal

(***************************************************************************)
(* App.run: one iteration is HandleInput, then Update, then Draw.          *)
(***************************************************************************)
\* A variant of lines 47-48 that leaves the requested scene uninstalled.
InstalledNever(e) == e.self

\* Lines 47-48 of app.py: the scene current after handle_input returned e;
\* an exception leaves the scene as the call left it.
Installed(e) ==
    IF e.crash # "none" THEN e.self
    ELSE IF e.next.kind # "none" THEN e.next ELSE e.self

\* Lines 43-55 of app.py: the frame's input is built and the current scene,
\* of the given kind, handles it; a requested next scene is installed.
HandleInput(kind, frames) ==
    /\ running /\ crash = "none" /\ pc = "input" /\ scene.kind = kind
    /\ \E f \in frames :
         \E e \in { Handle(scene, f.st, f.events, save, disk, fs_ok) } :
           /\ WithinBounds(e.save)
           /\ input_state' = f.st
           /\ events' = f.events
           /\ dt' = f.dt
           /\ crash' = e.crash
           /\ scene' = Installed(e)
           /\ save' = e.save
           /\ disk' = e.disk
           /\ running' = ~e.quit
           /\ hist' = HistAfter(hist, scene, e)
           /\ pc' = IF e.crash # "none" THEN "input" ELSE "update"
    /\ UNCHANGED <<fs_ok, screen>>

MenuHandleInput(frames) == HandleInput("menu", frames)
WorldHandleInput(frames) == HandleInput("world", frames)
InfoHandleInput(frames) == HandleInput("info", frames)
DialogueHandleInput(frames) == HandleInput("dialogue", frames)
ChallengeHandleInput(frames) == HandleInput("challenge", frames)
ResultsHandleInput(frames) == HandleInput("results", frames)

\* WorldScene.update
WorldUpdate ==
    /\ crash = "none" /\ pc = "update" /\ scene.kind = "world"
    /\ scene' = WorldUpdated(scene, input_state, dt)
    /\ save' = WorldUpdateSave(save, scene')
    /\ pc' = "draw"
    /\ UNCHANGED <<running, crash, disk, fs_ok, input_state, events, dt, screen, hist>>

\* A variant of the update step of the other scenes in which the retained
\* World scene is stepped too and drops its prompt labels.
SceneUpdateStepsWorld ==
    /\ crash = "none" /\ pc = "update" /\ scene.kind # "world"
    /\ scene' = IF scene.kind = "menu" THEN scene
                ELSE [scene EXCEPT !.return_scene.near_npc_label = NoLabel,
                                   !.return_scene.near_portal_label = NoLabel,
                                   !.return_scene.near_book_label = NoLabel]
    /\ pc' = "draw"
    /\ UNCHANGED <<running, crash, save, disk, fs_ok, input_state, events, dt, screen, hist>>

\* BaseScene.update, and DialogueScene.update (which only advances the
\* portrait animation clock, not modelled).
SceneUpdate ==
    /\ crash = "none" /\ pc = "update" /\ scene.kind # "world"
    /\ pc' = "draw"
    /\ UNCHANGED <<running, crash, scene, save, disk, fs_ok, input_state, events, dt, screen, hist>>

\* scene.draw(screen); display.flip(); back to the loop test.
Draw ==
    /\ crash = "none" /\ pc = "draw"
    /\ pc' = IF running THEN "input" ELSE "exit"
    /\ screen' = Drawn(scene)
    /\ UNCHANGED <<running, crash, scene, save, disk, fs_ok, input_state, events, dt, hist>>

(***************************************************************************)
(* Spec: the game from its start with no save file, played with            *)
(* PlayFrames.                                                             *)
(***************************************************************************)
\* App.__init__ with file dk on disk.
AppInit(dk) ==
    /\ disk = dk
    /\ fs_ok = TRUE
    /\ running = TRUE
    /\ crash = load_save(dk).crash
    /\ save = load_save(dk).save
    /\ scene = IF load_save(dk).crash = "none" THEN MenuScene ELSE NoScene
    /\ pc = "input"
    /\ input_state = Idle
    /\ events = << >>
    /\ dt = 0
    /\ screen = Blank
    /\ hist = HistInit

Init == AppInit(NoFile)

Next ==
    \/ MenuHandleInput(PlayFrames)
    \/ WorldHandleInput(PlayFrames)
    \/ InfoHandleInput(PlayFrames)
    \/ DialogueHandleInput(PlayFrames)
    \/ WorldUpdate
    \/ SceneUpdate
    \/ Draw

Spec == Init /\ [][Next]_vars

\* The state in which the World scene on map_id has just become current
\* with the player at (x, y), as after Load Game of such a save.
SaveAt(map_id, x, y) ==
    [default_save EXCEPT !.world = [map |-> map_id],
                         !.player = [x |-> Num(x), y |-> Num(y)]]

InWorldFrom(sv) ==
       /\ disk = json_dump(sv)
       /\ fs_ok = TRUE
       /\ running = TRUE
       /\ crash = "none"
       /\ save = sv
       /\ scene = WorldScene(sv, "", FALSE, 0, 0, 0).scene
       /\ pc = "update"
       /\ input_state = Snapshot(FALSE, FALSE, FALSE, FALSE, FALSE, TRUE, FALSE)
       /\ events = << "K_DOWN" >>
       /\ dt = 0
       /\ screen = Drawn(MenuScene)
       /\ hist = [HistInit EXCEPT !.tag = "menu.load_game"]

(***************************************************************************)
(* SpecMove: the World scene on map "lab", driven by every movement        *)
(* intent and every frame distance up to MaxDist.                          *)
(***************************************************************************)
InitMove == InWorldFrom(SaveAt("lab", 1, 5))

NextMove ==
    \/ WorldHandleInput(MoveFrames)
    \/ WorldUpdate
    \/ Draw

SpecMove == InitMove /\ [][NextMove]_vars

(***************************************************************************)
(* SpecTalk: the World scene on map "park" and the dialogues opened there. *)
(***************************************************************************)
InitTalk == InWorldFrom(SaveAt("park", 9, 5))

NextTalk ==
    \/ WorldHandleInput(PlayFrames)
    \/ DialogueHandleInput(PlayFrames)
    \/ WorldUpdate
    \/ SceneUpdate
    \/ Draw

SpecTalk == InitTalk /\ [][NextTalk]_vars

(***************************************************************************)
(* SpecQuiz: the World scene on map "school", the dialogue that starts the *)
(* quiz, the quiz and its results.                                         *)
(***************************************************************************)
\* The quiz set is new to the save, or already completed in it, or another
\* set is.
InitQuiz ==
    \E comp \in { << >>, << "phishing_1" >>, << "links_1" >> } :
        InWorldFrom([SaveAt("school", 9, 5) EXCEPT !.completed = [challenges |-> comp]])

NextQuiz ==
    \/ WorldHandleInput(PlayFrames)
    \/ DialogueHandleInput(PlayFrames)
    \/ ChallengeHandleInput(PlayFrames)
    \/ ResultsHandleInput(PlayFrames)
    \/ WorldUpdate
    \/ SceneUpdate
    \/ Draw

SpecQuiz == InitQuiz /\ [][NextQuiz]_vars

(***************************************************************************)
(* SpecSave: the game from its start with any of DiskFiles as the save     *)
(* file, through the menu and the World scene of the loaded or new save.   *)
(***************************************************************************)
\* A well-formed save without "world", with some trust, only two of the
\* score keys, and one completed quiz.
SavedDoc ==
    JDoc(JWorld("absent", FALSE, ""), JPlayer("dict", Num(200), Num(200)),
         JMap("dict", MapPut(MapPut(EmptyMap, "aya", 1), "mika", -1)),
         JMap("dict", MapPut(MapPut(EmptyMap, "total", 2), "phishing", 2)),
         JCompleted("dict", "list", << "phishing_1" >>))

\* SavedDoc with one sub-object or sub-key missing or of the wrong type.
BrokenDocs ==
    { [SavedDoc EXCEPT !.world = JWorld("other", FALSE, "")],
      [SavedDoc EXCEPT !.world = JWorld("dict", FALSE, "")],
      [SavedDoc EXCEPT !.player = JPlayer("absent", Missing, Missing)],
      [SavedDoc EXCEPT !.player = JPlayer("other", Missing, Missing)],
      [SavedDoc EXCEPT !.player = JPlayer("dict", Missing, Missing)],
      [SavedDoc EXCEPT !.player = JPlayer("dict", Num(200), Missing)],
      [SavedDoc EXCEPT !.player = JPlayer("dict", BadStr, Num(200))],
      [SavedDoc EXCEPT !.trust = JMap("other", EmptyMap)],
      [SavedDoc EXCEPT !.scores = JMap("other", EmptyMap)],
      [SavedDoc EXCEPT !.scores = JMap("dict", EmptyMap)],
      [SavedDoc EXCEPT !.completed = JCompleted("other", "absent", << >>)],
      [SavedDoc EXCEPT !.completed = JCompleted("dict", "absent", << >>)],
      [SavedDoc EXCEPT !.completed = JCompleted("dict", "other", << >>)] }

\* What the save file may hold: nothing, text that is no JSON, JSON that is
\* no object (null, a number, []), or an object.
DiskFiles ==
    { NoFile, File("garbage", EmptyJDoc), File("null", EmptyJDoc),
      File("number", EmptyJDoc), File("emptylist", EmptyJDoc),
      File("object", EmptyJDoc), File("object", SavedDoc) }
    \cup { File("object", d) : d \in BrokenDocs }

\* Walking, the menu keys, and cancel.
SaveFrames ==
    WalkFrames \cup
    { Press(FALSE, FALSE, FALSE, << >>),
      Press(FALSE, TRUE, FALSE, << >>),
      Press(FALSE, FALSE, TRUE, << >>),
      Press(FALSE, FALSE, FALSE, << "K_UP" >>),
      Press(FALSE, FALSE, FALSE, << "K_DOWN" >>),
      Press(FALSE, TRUE, FALSE, << "K_DOWN" >>) }

InitSave == \E dk \in DiskFiles : AppInit(dk)

NextSave ==
    \/ MenuHandleInput(SaveFrames)
    \/ WorldHandleInput(SaveFrames)
    \/ WorldUpdate
    \/ SceneUpdate
    \/ Draw

SpecSave == InitSave /\ [][NextSave]_vars

(***************************************************************************)
(* SpecGrade: a Results scene with any points and max up to MaxPoints, and *)
(* the maxima 100 and 200, drawn and closed.                               *)
(***************************************************************************)
GradeMaxima == (-1..MaxPoints) \cup {100, 200}

GradePoints(max_points) ==
    (-1..MaxPoints + 1) \cup { (t * max_points) \div 100 + e : t \in {60, 70, 80, 90, 100}, e \in {-1, 0, 1} }
    \cup { max_points \div 2 }

GradeFrames ==
    { Press(FALSE, FALSE, FALSE, << >>),
      Press(TRUE, FALSE, FALSE, << >>),
      Press(FALSE, TRUE, FALSE, << >>) }

\* The Results scene has just been installed by the quiz's handle_input.
InitGrade ==
    \E max_points \in GradeMaxima : \E points \in GradePoints(max_points) :
        /\ disk = json_dump(SaveAt("school", 9, 5))
        /\ fs_ok = TRUE
        /\ running = TRUE
        /\ crash = "none"
        /\ save = SaveAt("school", 9, 5)
        /\ scene = ResultsScene(WorldScene(save, "", FALSE, 0, 0, 0).scene, "Phishing",
                                points, max_points)
        /\ pc = "update"
        /\ input_state = Snapshot(FALSE, FALSE, FALSE, FALSE, FALSE, TRUE, FALSE)
        /\ events = << >>
        /\ dt = 0
        /\ screen = Blank
        /\ hist = [HistInit EXCEPT !.tag = "challenge.finish"]

NextGrade ==
    \/ ResultsHandleInput(GradeFrames)
    \/ SceneUpdate
    \/ Draw

SpecGrade == InitGrade /\ [][NextGrade]_vars

(***************************************************************************)
(* SpecNear: the World scene on map "plaza", walked end to end.            *)
(***************************************************************************)
NearFrames == WalkFrames \cup { Press(FALSE, FALSE, FALSE, << >>) }

InitNear == InWorldFrom(SaveAt("plaza", 12, 4))

NextNear ==
    \/ WorldHandleInput(NearFrames)
    \/ WorldUpdate
    \/ Draw

SpecNear == InitNear /\ [][NextNear]_vars

(***************************************************************************)
(* SpecCam: the World scene in the rooms of "field" and "strip", walked in *)
(* every direction by one and by three pixels a frame.                     *)
(***************************************************************************)
CamFrames ==
    { Frame(Snapshot(u, d, l, r, FALSE, FALSE, FALSE), << >>, n * SubPx) :
        u \in BOOLEAN, d \in BOOLEAN, l \in BOOLEAN, r \in BOOLEAN, n \in {1, 3} }

InitCam == \E map_id \in {"field", "strip"} : InWorldFrom(SaveAt(map_id, 80, 60))

NextCam ==
    \/ WorldHandleInput(CamFrames)
    \/ WorldUpdate
    \/ Draw

SpecCam == InitCam /\ [][NextCam]_vars

(***************************************************************************)
(* SpecChat: the World scene on map "office", the dialogue with every kind *)
(* of node, and the quiz without questions it starts.                      *)
(***************************************************************************)
\* The edge-triggered keys and arrow keys, cancel together with each, and
\* both arrow keys in one frame.
ChatFrames ==
    ButtonFrames \cup
    { Press(FALSE, FALSE, TRUE, << "K_DOWN" >>),
      Press(TRUE, TRUE, TRUE, << "K_UP" >>),
      Press(FALSE, FALSE, FALSE, << "K_UP", "K_DOWN" >>) }

InitChat == InWorldFrom(SaveAt("office", 8, 5))

NextChat ==
    \/ WorldHandleInput(ChatFrames)
    \/ DialogueHandleInput(ChatFrames)
    \/ ChallengeHandleInput(ChatFrames)
    \/ ResultsHandleInput(ChatFrames)
    \/ WorldUpdate
    \/ SceneUpdate
    \/ Draw

SpecChat == InitChat /\ [][NextChat]_vars

(***************************************************************************)
(* SpecScore: the World scene on map "hall" and two quizzes of one         *)
(* question, one whose category is a key the save does not have yet, one   *)
(* whose category is "total".                                              *)
(***************************************************************************)
InitScore == InWorldFrom(SaveAt("hall", 9, 5))

NextScore ==
    \/ WorldHandleInput(PlayFrames)
    \/ DialogueHandleInput(PlayFrames)
    \/ ChallengeHandleInput(PlayFrames)
    \/ ResultsHandleInput(PlayFrames)
    \/ WorldUpdate
    \/ SceneUpdate
    \/ Draw

SpecScore == InitScore /\ [][NextScore]_vars

(***************************************************************************)
(* SpecRoad: the World scene on map "road", walked end to end by one and   *)
(* by five pixels a frame.                                                 *)
(***************************************************************************)
RoadFrames ==
    { Frame(Snapshot(FALSE, FALSE, l, r, FALSE, FALSE, FALSE), << >>, n * SubPx) :
        l \in BOOLEAN, r \in BOOLEAN, n \in {1, 5} }

InitRoad == InWorldFrom(SaveAt("road", 8, 5))

NextRoad ==
    \/ WorldHandleInput(RoadFrames)
    \/ WorldUpdate
    \/ Draw

SpecRoad == InitRoad /\ [][NextRoad]_vars

(***************************************************************************)
(* SpecFail: Spec in an environment where, from some moment on, opening    *)
(* the save file for writing raises OSError.                               *)
(***************************************************************************)
\* save_game, lines 68-69: makedirs / open start to fail.
WriteFails ==
    /\ running /\ crash = "none" /\ pc = "input" /\ fs_ok
    /\ fs_ok' = FALSE
    /\ UNCHANGED <<running, crash, pc, scene, save, disk, input_state, events, dt,
                   screen, hist>>

NextFail ==
    \/ Next
    \/ WriteFails

SpecFail == Init /\ [][NextFail]_vars

(***************************************************************************)
(* SpecEsc: all six scenes.  The World scene starts on map "office" (the   *)
(* dialogue, the quiz without questions and its results) or on "house_1"   *)
(* at the book (the overlay), or on "school" next to sensei with a trust   *)
(* entry in the save (the quiz phishing_1); the Menu leads on to "city".   *)
(***************************************************************************)
InitEsc ==
    \/ InWorldFrom(SaveAt("office", 8, 5))
    \/ InWorldFrom(SaveAt("house_1", 21, 10))
    \/ InWorldFrom([SaveAt("school", 8, 5) EXCEPT !.trust = MapPut(EmptyMap, "aya", 1)])

NextEsc ==
    \/ MenuHandleInput(ChatFrames)
    \/ WorldHandleInput(ChatFrames)
    \/ InfoHandleInput(ChatFrames)
    \/ DialogueHandleInput(ChatFrames)
    \/ ChallengeHandleInput(ChatFrames)
    \/ ResultsHandleInput(ChatFrames)
    \/ WorldUpdate
    \/ SceneUpdate
    \/ Draw

SpecEsc == InitEsc /\ [][NextEsc]_vars

(***************************************************************************)
(* Properties.                                                             *)
(***************************************************************************)

\* The player rectangle of World scene w is fully inside the world bounds.
InsideBounds(w) ==
    /\ 0 <= w.x /\ w.x + PLAYER_W <= Map(w.map_id).pixel_w
    /\ 0 <= w.y /\ w.y + PLAYER_H <= Map(w.map_id).pixel_h

\* The player rectangle of World scene w overlaps no collider of its map.
OverlapsNoCollider(w) ==
    \A i \in 1..Len(Map(w.map_id).colliders) :
        ~colliderect(PlayerRect(w), Map(w.map_id).colliders[i])

\* C1: a World update that starts with the player rectangle inside the
\* world bounds and clear of every collider ends with the player rectangle
\* inside the world bounds and clear of every collider.
C1_UpdateKeepsPlayerClear ==
    [][ (/\ pc = "update" /\ scene.kind = "world" /\ pc' = "draw"
         /\ InsideBounds(scene) /\ OverlapsNoCollider(scene))
        => (InsideBounds(scene') /\ OverlapsNoCollider(scene')) ]_vars

\* The sum of `points` over the questions of qs whose place is in S.
RECURSIVE PointsOver(_, _)
PointsOver(qs, S) ==
    IF S = {} THEN 0
    ELSE LET i == CHOOSE j \in S : TRUE
         IN qs[i].points + PointsOver(qs, S \ {i})

\* C2: the points handed to Results are the sum of `points` over the
\* questions whose selection at confirm time was the correct index, and
\* the max handed to Results is the sum of `points` over all questions.
C2_ResultsPoints ==
    (scene.kind = "results" /\ hist.tag = "challenge.finish") =>
        LET qs == Challenge(hist.set_id).questions
        IN /\ Len(hist.answers) = Len(qs)
           /\ scene.points =
                  PointsOver(qs, { i \in 1..Len(qs) : hist.answers[i] = qs[i].correct_index })
           /\ scene.max_points = PointsOver(qs, 1..Len(qs))

\* Results after a run with the first question wrong and the second right.
C2_Witness ==
    /\ scene.kind = "results" /\ hist.tag = "challenge.finish"
    /\ hist.answers = << 0, 0 >>
    /\ scene.points = 2 /\ scene.max_points = 3

\* C3: a confirm (without cancel) on a node with choices changes
\* trust[npc_id] by exactly the trust_delta of the choice selected at
\* confirm time, a missing entry counting as 0, and changes the entry of no
\* other NPC.
C3_ConfirmAppliesDeltaOnce ==
    [][ (/\ pc = "input" /\ scene.kind = "dialogue" /\ pc' = "update"
         /\ Len(NodeOf(scene).choices) > 0
         /\ input_state'.confirm_pressed /\ ~input_state'.cancel_pressed)
        => LET choices == NodeOf(scene).choices
               i == Selected(scene.selected_choice, events', Len(choices))
               old == IF scene.npc_id \in DOMAIN save.trust THEN save.trust[scene.npc_id] ELSE 0
           IN /\ DOMAIN save'.trust = DOMAIN save.trust \cup {scene.npc_id}
              /\ save'.trust[scene.npc_id] = old + choices[i + 1].trust_delta
              /\ \A n \in DOMAIN save.trust \ {scene.npc_id} :
                    save'.trust[n] = save.trust[n] ]_vars

\* A choice has just been confirmed with mika while aya's trust stands at 1,
\* and it lowered mika's trust from 1 to 0.
C3_Witness ==
    /\ hist.tag = "dialogue.choice" /\ scene.kind = "dialogue" /\ scene.npc_id = "mika"
    /\ input_state.confirm_pressed /\ events = << "K_DOWN" >>
    /\ "aya" \in DOMAIN save.trust /\ save.trust["aya"] = 1
    /\ "mika" \in DOMAIN save.trust /\ save.trust["mika"] = 0

\* C4: on a node without choices whose `next` is B, a confirm (without
\* cancel) sets the current node id to B and the Dialogue scene stays the
\* current scene.
C4_ConfirmFollowsNext ==
    [][ (/\ pc = "input" /\ scene.kind = "dialogue" /\ pc' = "update"
         /\ Len(NodeOf(scene).choices) = 0 /\ NodeOf(scene).next # ""
         /\ input_state'.confirm_pressed /\ ~input_state'.cancel_pressed)
        => /\ scene'.kind = "dialogue"
           /\ scene'.node_id = NodeOf(scene).next
           /\ scene' = [scene EXCEPT !.node_id = NodeOf(scene).next]
           /\ save' = save /\ disk' = disk ]_vars

\* The guide's second line has just been reached by a confirm on the first.
C4_Witness ==
    /\ hist.tag = "dialogue.next" /\ scene.kind = "dialogue"
    /\ scene.dialogue_path = "npc_guide" /\ scene.node_id = "tip"
    /\ input_state.confirm_pressed /\ ~input_state.cancel_pressed

\* How often id occurs in the list comp.
Occurrences(comp, id) == Cardinality({ i \in 1..Len(comp) : comp[i] = id })

\* C5: completed.challenges never holds an id twice, and holds the id of
\* every quiz set that has been finished exactly once, however often the
\* set was finished.
C5_CompletedOnce ==
    /\ \A i, j \in 1..Len(save.completed.challenges) :
          save.completed.challenges[i] = save.completed.challenges[j] => i = j
    /\ \A id \in ChallengeIds :
          hist.finished[id] >= 1 => Occurrences(save.completed.challenges, id) = 1

\* The same quiz set has been finished a second time.
C5_Witness ==
    /\ hist.tag = "challenge.finish" /\ scene.kind = "results"
    /\ hist.finished["phishing_1"] = 2
    /\ Occurrences(save.completed.challenges, "phishing_1") = 1

\* The portal of World scene w that an interact would trigger, as a set: empty
\* when the resolver picks no portal or the portal has no target map.
TriggeredPortal(w) ==
    LET nearest == _nearest_interactable(w)
    IN IF nearest.kind # "portal" THEN {}
       ELSE { p \in { Map(w.map_id).portals[nearest.idx] } :
                /\ colliderect(PlayerRect(w), p.rect) /\ p.target_map # "" }

\* No movement key is held in snapshot st.
Still(st) == ~st.up /\ ~st.down /\ ~st.left /\ ~st.right

\* C6 (as stated): at the end of the frame in which a portal with target
\* map M and target (tx, ty) is triggered, the current scene is a World
\* scene on M whose player position equals (tx, ty).
C6_EndOfFrameAtTarget ==
    [][ (pc = "update" /\ hist.tag = "world.portal" /\ hist.target.map # "" /\ pc' = "draw")
        => /\ scene'.kind = "world" /\ scene'.map_id = hist.target.map
           /\ 10 * scene'.x = hist.target.x /\ 10 * scene'.y = hist.target.y ]_vars

\* C6 (amended): when a portal with target map M and target (tx, ty) that
\* the player rectangle overlaps is triggered, handle_input installs a
\* World scene on M with the player at (int(tx), int(ty)); that scene then
\* runs the update of the same frame, so at the end of the frame the
\* current scene is a World scene on M, with the player still at
\* (int(tx), int(ty)) when no movement key is held in that frame.
C6_PortalInstallsTarget ==
    [][ /\ (/\ pc = "input" /\ scene.kind = "world" /\ pc' = "update"
            /\ input_state'.interact_pressed /\ ~input_state'.cancel_pressed)
           => \A p \in TriggeredPortal(scene) :
                 /\ scene'.kind = "world" /\ scene'.map_id = p.target_map
                 /\ scene'.x = (p.target_x - (p.target_x % 10)) \div 10
                 /\ scene'.y = (p.target_y - (p.target_y % 10)) \div 10
                 /\ hist'.target = [map |-> p.target_map, x |-> p.target_x, y |-> p.target_y]
        /\ (pc = "update" /\ hist.target.map # "" /\ pc' = "draw")
           => /\ scene'.kind = "world" /\ scene'.map_id = hist.target.map
              /\ Still(input_state) =>
                    /\ scene'.x = (hist.target.x - (hist.target.x % 10)) \div 10
                    /\ scene'.y = (hist.target.y - (hist.target.y % 10)) \div 10
        /\ (pc = "draw" /\ pc' # "draw") => scene' = scene ]_vars

\* The door of the house has been triggered while walking to the right, and
\* the frame's update has moved the player one pixel on from (20, 10).
C6_Witness ==
    /\ pc = "draw" /\ hist.tag = "world.portal" /\ hist.target = [map |-> "house_1", x |-> 200, y |-> 100]
    /\ input_state.interact_pressed /\ input_state.right
    /\ scene.kind = "world" /\ scene.map_id = "house_1" /\ scene.x = 21 /\ scene.y = 10

C8_LoadNeverFails ==
    /\ crash = "none"
    /\ save.player.x.t = "num" /\ save.player.y.t = "num"

\* C9: for max > 0 the grade drawn by the Results scene is S when
\* points*100/max >= 90, A when >= 80, B when >= 70, C when >= 60 and D
\* otherwise; for max <= 0 it is N/A; 200 of 200 is S and 100 of 200 is D.
C9_GradeThresholds ==
    (scene.kind = "results" /\ screen.grade # "") =>
        LET points == scene.points
            max == scene.max_points
            \* for an integer t, points*100/max >= t iff the floor of the
            \* quotient is >= t
            pct == (points * 100) \div max
        IN /\ max <= 0 => screen.grade = "N/A"
           /\ max > 0 =>
                /\ pct >= 90 => screen.grade = "S"
                /\ (pct >= 80 /\ pct < 90) => screen.grade = "A"
                /\ (pct >= 70 /\ pct < 80) => screen.grade = "B"
                /\ (pct >= 60 /\ pct < 70) => screen.grade = "C"
                /\ pct < 60 => screen.grade = "D"
           /\ (points = 200 /\ max = 200) => screen.grade = "S"
           /\ (points = 100 /\ max = 200) => screen.grade = "D"

\* 9 of 10 has been drawn as S: the threshold itself.
C9_Witness ==
    /\ scene.kind = "results" /\ scene.points = 9 /\ scene.max_points = 10
    /\ pc = "input" /\ screen.grade = "S"

\* The portals and the books of World scene w that the player rectangle
\* overlaps, by their place in the map's lists.
OverlappedPortals(w) ==
    { i \in 1..Len(Map(w.map_id).portals) :
        colliderect(PlayerRect(w), Map(w.map_id).portals[i].rect) }

OverlappedBooks(w) ==
    { i \in 1..Len(Map(w.map_id).books) :
        colliderect(PlayerRect(w), Map(w.map_id).books[i].rect) }

\* C10: while the player rectangle overlaps a portal or a book, the
\* resolver never returns none, its result is at distance 0, and a portal
\* or book it returns is one the player overlaps; handle_input then shows a
\* prompt, and a portal's or book's prompt shown is that of an overlapped one.
C10_OverlapWins ==
    (scene.kind = "world" /\ OverlappedPortals(scene) \cup OverlappedBooks(scene) # {}) =>
        LET r == _nearest_interactable(scene)
            m == Map(scene.map_id)
        IN /\ r.kind # "none"
           /\ r.dist = 0
           /\ r.kind = "portal" => r.idx \in OverlappedPortals(scene)
           /\ r.kind = "book" => r.idx \in OverlappedBooks(scene)
           /\ (pc = "update" /\ ~input_state.cancel_pressed /\ hist.tag # "menu.load_game") =>
                /\ \/ scene.near_npc_label # NoLabel
                   \/ scene.near_portal_label # NoLabel
                   \/ scene.near_book_label # NoLabel
                /\ scene.near_portal_label # NoLabel =>
                      \E i \in OverlappedPortals(scene) :
                          scene.near_portal_label = m.portals[i].prompt
                /\ scene.near_book_label # NoLabel =>
                      \E i \in OverlappedBooks(scene) :
                          scene.near_book_label = m.books[i].prompt

\* The player stands in the tall portal, whose centre is farther than
\* PORTAL_RADIUS, with the small portal's centre three pixels away and the
\* person's one pixel away: the tall portal's prompt is set.
C10_Witness ==
    /\ pc = "update" /\ scene.kind = "world" /\ scene.map_id = "plaza" /\ scene.x = 7
    /\ OverlappedPortals(scene) = {2}
    /\ CenterDist(PlayerRect(scene), PlazaMap.portals[2].rect) > PORTAL_RADIUS * PORTAL_RADIUS
    /\ CenterDist(PlayerRect(scene), PlazaMap.portals[1].rect) = 9
    /\ scene.near_portal_label = "tall door"

\* Both axes are active in snapshot st.
Diagonal(st) == (st.left # st.right) /\ (st.up # st.down)

\* C11: the displacement of the player in an update with a diagonal intent
\* is never longer than the displacement int(PLAYER_SPEED * dt) of a
\* single-axis intent with the same dt (compared by their squares).
C11_DiagonalNotFaster ==
    [][ (pc = "update" /\ scene.kind = "world" /\ pc' = "draw" /\ Diagonal(input_state))
        => (scene'.x - scene.x) * (scene'.x - scene.x)
           + (scene'.y - scene.y) * (scene'.y - scene.y)
           <= (dt \div SubPx) * (dt \div SubPx) ]_vars

Viewport(screen_px, z, least) ==
    IF (screen_px * 10) \div z < least THEN least ELSE (screen_px * 10) \div z

\* C13: in the World scene each camera coordinate (kept in half pixels) lies
\* in [0, max(0, worldSize - viewportSize)], and is 0 on an axis where the
\* world is smaller than the viewport.
C13_CameraInRange ==
    scene.kind = "world" =>
        LET m == Map(scene.map_id)
            vw == Viewport(SCREEN_W, scene.zoom, 160)
            vh == Viewport(SCREEN_H, scene.zoom, 120)
        IN /\ scene.camera_x >= 0 /\ scene.camera_y >= 0
           /\ m.pixel_w >= vw => scene.camera_x <= 2 * (m.pixel_w - vw)
           /\ m.pixel_h >= vh => scene.camera_y <= 2 * (m.pixel_h - vh)
           /\ m.pixel_w < vw => scene.camera_x = 0
           /\ m.pixel_h < vh => scene.camera_y = 0

\* After an update in "field" the camera is strictly inside its range on x
\* and held at the upper end on y, where the player is past it.
C13_Witness ==
    /\ pc = "draw" /\ scene.kind = "world" /\ scene.map_id = "field"
    /\ scene.x = 84 /\ scene.camera_x = 10
    /\ scene.y = 72 /\ scene.camera_y = 20

\* The number of questions of the quiz a Quiz scene runs.
QuestionCount(s) == Len(Challenge(s.challenge_set_id).questions)

\* C14: in a non-empty quiz, Answering becomes Feedback exactly on a confirm
\* (without cancel) in Answering, at the same question; Feedback becomes
\* Answering of the next question with selection 0, or Results after the
\* last question, exactly on a confirm (without cancel) in Feedback; any
\* Feedback frame without confirm and cancel leaves the question index,
\* selection, points and save unchanged; the question index changes only
\* by +1.
C14_QuestionStateMachine ==
    [][ (pc = "input" /\ scene.kind = "challenge" /\ crash' = "none"
         /\ QuestionCount(scene) > 0) =>
          LET st == input_state'
              go == st.confirm_pressed /\ ~st.cancel_pressed
              stays == scene'.kind = "challenge"
          IN /\ ~st.cancel_pressed => scene'.kind \in {"challenge", "results"}
             /\ stays => scene'.qi \in {scene.qi, scene.qi + 1}
             /\ ~scene.showing_feedback =>
                  /\ scene'.kind # "results"
                  /\ stays => scene'.qi = scene.qi
                  /\ (stays /\ scene'.showing_feedback) <=> go
             /\ scene.showing_feedback =>
                  /\ (stays /\ scene'.qi = scene.qi) => scene' = scene
                  /\ go <=> \/ scene'.kind = "results"
                            \/ stays /\ scene'.qi = scene.qi + 1
                  /\ go => IF scene.qi + 1 < QuestionCount(scene)
                           THEN /\ stays /\ ~scene'.showing_feedback
                                /\ scene'.selected = 0
                                /\ scene'.points_earned = scene.points_earned
                           ELSE scene'.kind = "results"
                  /\ (~st.confirm_pressed /\ ~st.cancel_pressed) =>
                       /\ scene' = scene /\ save' = save /\ disk' = disk ]_vars

\* The second question is being answered, its selection back at 0, after
\* the first was confirmed with the second choice selected.
C14_Witness ==
    /\ scene.kind = "challenge" /\ hist.tag = "challenge.next"
    /\ scene.qi = 1 /\ scene.selected = 0 /\ ~scene.showing_feedback
    /\ hist.answers = << 1 >>

\* C15: a cancel handled by the Quiz scene, in Answering, in Feedback or
\* with an empty question list, and whatever else is pressed, writes the
\* save document to the file and makes the quiz's return scene current in
\* that frame; no answer is evaluated (points and scores are as before)
\* and no question is advanced.
C15_QuizCancelReturns ==
    [][ (pc = "input" /\ scene.kind = "challenge" /\ input_state'.cancel_pressed
         /\ crash' = "none") =>
          /\ scene' = scene.return_scene
          /\ save' = save
          /\ disk' = json_dump(save)
          /\ hist'.answers = hist.answers
          /\ hist'.finished = hist.finished
          /\ pc' = "update" ]_vars

\* The quiz without questions has just been cancelled, with confirm pressed
\* in the same frame, and the World scene it was handed is current.
C15_Witness ==
    /\ hist.tag = "challenge.cancel" /\ hist.set_id = "blank_1"
    /\ input_state.cancel_pressed /\ input_state.confirm_pressed
    /\ scene.kind = "world" /\ pc = "update"

\* What C16 says of one step: an input frame handled by a quiz without
\* questions, cancel pressed in it or not as `cancelled` allows, installs
\* Results with points 0 of 0 and the quiz's return scene; and the Results
\* scene so reached is drawn with the grade "N/A".
EmptyQuizToResults(cancelled) ==
    /\ (pc = "input" /\ scene.kind = "challenge" /\ QuestionCount(scene) = 0
        /\ crash' = "none" /\ input_state'.cancel_pressed \in cancelled) =>
          /\ scene'.kind = "results"
          /\ scene'.points = 0 /\ scene'.max_points = 0
          /\ scene'.return_scene = scene.return_scene
    /\ (pc = "draw" /\ scene.kind = "results" /\ hist.tag = "challenge.empty") =>
          screen'.grade = "N/A"

\* C16 as stated: a quiz without questions becomes Results (0 of 0, grade
\* N/A) on the first input frame it handles, whatever that frame holds.
C16_EmptyQuizAlwaysResults == [][EmptyQuizToResults(BOOLEAN)]_vars

\* C16, amended: a quiz without questions becomes Results (0 of 0, grade
\* N/A) on the first input frame it handles in which cancel is not pressed,
\* confirm pressed or not.
C16_EmptyQuizResults == [][EmptyQuizToResults({FALSE})]_vars

\* The results of the quiz without questions have been drawn, reached by a
\* frame without confirm.
C16_Witness ==
    /\ hist.tag = "challenge.empty" /\ ~input_state.confirm_pressed
    /\ scene.kind = "results" /\ scene.max_points = 0
    /\ pc = "input" /\ screen.scene_kind = "results" /\ screen.grade = "N/A"

\* C17: a cancel handled by the Dialogue scene, at any node and whatever
\* else the frame holds, writes the save document to the file and makes the
\* dialogue's return scene current in that frame; the save (and so every
\* trust value) is as before, and no quiz is started.
C17_DialogueCancelReturns ==
    [][ (pc = "input" /\ scene.kind = "dialogue" /\ input_state'.cancel_pressed
         /\ crash' = "none") =>
          /\ scene' = scene.return_scene
          /\ scene'.kind # "challenge"
          /\ save' = save
          /\ disk' = json_dump(save)
          /\ hist'.set_id = hist.set_id
          /\ pc' = "update" ]_vars

\* The dialogue was cancelled at the node that starts a quiz, with confirm
\* pressed in the same frame, after the choice that raised the trust.
C17_Witness ==
    /\ hist.tag = "dialogue.cancel" /\ hist.node = "test"
    /\ input_state.cancel_pressed /\ input_state.confirm_pressed
    /\ scene.kind = "world" /\ pc = "update"
    /\ MapGet(save.trust, "dean", 0) = 1 /\ disk = json_dump(save)

\* C18: when the Dialogue scene's node id is not a key of the node graph,
\* the next input frame it handles, whatever it holds, raises nothing,
\* writes the save document to the file and makes the return scene current;
\* the save (and so every trust value) is as before.
C18_MissingNodeEnds ==
    [][ (pc = "input" /\ scene.kind = "dialogue"
         /\ scene.node_id \notin DOMAIN Dialogue(scene.dialogue_path).nodes) =>
          /\ crash' = "none"
          /\ scene' = scene.return_scene
          /\ save' = save
          /\ disk' = json_dump(save)
          /\ pc' = "update" ]_vars

\* The dialogue ended at "out", the missing next of the line "bye", on a
\* frame without cancel.
C18_Witness ==
    /\ hist.tag = "dialogue.end" /\ hist.node = "out"
    /\ ~input_state.cancel_pressed
    /\ scene.kind = "world" /\ pc = "update" /\ crash = "none"
    /\ disk = json_dump(save)

\* C19: a frame without cancel handled by the Dialogue scene at a node with
\* a start_challenge action installs a Quiz scene for the action's set id
\* whose return scene is the dialogue's return scene, a World scene; from
\* the quiz and from its results only the results with that same return
\* scene or that return scene itself become current; and a Dialogue scene
\* becomes current only out of the World scene, as a new dialogue at its
\* start node.
C19_QuizDiscardsDialogue ==
    [][ /\ (pc = "input" /\ scene.kind = "dialogue" /\ crash' = "none"
            /\ NodeOf(scene).action # "" /\ ~input_state'.cancel_pressed) =>
              /\ scene'.kind = "challenge"
              /\ scene'.challenge_set_id = NodeOf(scene).action
              /\ scene'.return_scene = scene.return_scene
              /\ scene.return_scene.kind = "world"
        /\ (pc = "input" /\ scene.kind \in {"challenge", "results"} /\ crash' = "none") =>
              \/ scene'.kind = "challenge" /\ scene'.return_scene = scene.return_scene
              \/ scene'.kind = "results" /\ scene'.return_scene = scene.return_scene
              \/ scene' = scene.return_scene /\ scene'.kind = "world"
        /\ (scene'.kind = "dialogue" /\ scene.kind # "dialogue") =>
              /\ scene.kind = "world" /\ hist'.tag = "world.talk"
              /\ scene'.node_id = Dialogue(scene'.dialogue_path).start_node ]_vars

\* The quiz started by the dialogue was finished and its results closed:
\* the World scene is current, not the dialogue that stood at "quiz".
C19_Witness ==
    /\ hist.tag = "results.close" /\ hist.set_id = "phishing_1"
    /\ hist.finished["phishing_1"] >= 1 /\ Len(hist.answers) = 2
    /\ scene.kind = "world" /\ pc = "update"

\* What C20 says of one step, for the quizzes whose category is in `tags`:
\* a confirm in Answering of a question worth p points adds exactly p to
\* points_earned, to scores.total and to scores[category] when the selected
\* index is correct_index, and changes none of the three otherwise.
ConfirmScores(tags) ==
    (pc = "input" /\ scene.kind = "challenge" /\ QuestionCount(scene) > 0
     /\ ~scene.showing_feedback /\ scene.category \in tags /\ crash' = "none"
     /\ input_state'.confirm_pressed /\ ~input_state'.cancel_pressed) =>
       LET q == Challenge(scene.challenge_set_id).questions[scene.qi + 1]
           c == scene.category
           p == IF scene'.selected = q.correct_index THEN q.points ELSE 0
       IN /\ scene'.kind = "challenge" /\ scene'.showing_feedback
          /\ scene'.points_earned = scene.points_earned + p
          /\ MapGet(save'.scores, "total", 0) = MapGet(save.scores, "total", 0) + p
          /\ MapGet(save'.scores, c, 0) = MapGet(save.scores, c, 0) + p

\* C20: a confirm in Answering awards the question's points to
\* points_earned, scores.total and scores[c] exactly once each on a correct
\* answer and changes none of them otherwise, for every category tag c.
C20_ConfirmScores == [][ConfirmScores({"phishing", "urls", "total"})]_vars

\* The squared distance between the centres of the player and rectangle r,
\* from the rectangles' corners and sizes.
CentreGap(w, r) ==
    LET dx == (w.x + PLAYER_W \div 2) - (r.x + r.w \div 2)
        dy == (w.y + PLAYER_H \div 2) - (r.y + r.h \div 2)
    IN dx * dx + dy * dy

\* The player rectangle and rectangle r share an area.
Touches(w, r) ==
    /\ w.x < r.x + r.w /\ r.x < w.x + PLAYER_W
    /\ w.y < r.y + r.h /\ r.y < w.y + PLAYER_H

\* The candidates of each kind that are eligible for the player of world
\* scene w: a person within 48 px, a portal overlapped or within 70 px, a
\* book overlapped or within 60 px.
Eligible(w, kind) ==
    LET m == Map(w.map_id)
    IN CASE kind = "npc" ->
              { i \in 1..Len(m.npcs) : CentreGap(w, m.npcs[i].rect) <= 48 * 48 }
         [] kind = "portal" ->
              { i \in 1..Len(m.portals) :
                  Touches(w, m.portals[i].rect) \/ CentreGap(w, m.portals[i].rect) <= 70 * 70 }
         [] kind = "book" ->
              { i \in 1..Len(m.books) :
                  Touches(w, m.books[i].rect) \/ CentreGap(w, m.books[i].rect) <= 60 * 60 }

\* C21: the resolver returns none exactly when no candidate of any kind is
\* eligible, and what it returns is an eligible candidate of the kind it
\* reports.
C21_ResolverEligibility ==
    scene.kind = "world" =>
        LET r == _nearest_interactable(scene)
        IN /\ r.kind = "none" <=>
                Eligible(scene, "npc") \cup Eligible(scene, "portal")
                    \cup Eligible(scene, "book") = {}
           /\ r.kind # "none" =>
                /\ r.kind \in {"npc", "portal", "book"}
                /\ r.idx \in Eligible(scene, r.kind)

\* The player stands 49 px from the person, out of its reach, with the
\* portal and the book still within theirs: the resolver returns the book.
C21_Witness ==
    /\ scene.kind = "world" /\ scene.map_id = "road" /\ scene.x = 57
    /\ Eligible(scene, "npc") = {} /\ Eligible(scene, "portal") = {1}
    /\ Eligible(scene, "book") = {1}
    /\ _nearest_interactable(scene).kind = "book"

\* The effective distance of candidate i of a kind: 0 for a portal or book
\* the player overlaps, the squared centre distance otherwise.
EffGap(w, kind, i) ==
    LET m == Map(w.map_id)
    IN CASE kind = "npc" -> CentreGap(w, m.npcs[i].rect)
         [] kind = "portal" ->
              IF Touches(w, m.portals[i].rect) THEN 0 ELSE CentreGap(w, m.portals[i].rect)
         [] kind = "book" ->
              IF Touches(w, m.books[i].rect) THEN 0 ELSE CentreGap(w, m.books[i].rect)

\* The order in which the kinds are checked.
KindRank(kind) == CASE kind = "npc" -> 1 [] kind = "portal" -> 2 [] kind = "book" -> 3

\* The resolver's result r is as close as every eligible candidate, and
\* among those equally close it is of the kind checked first and, within its
\* kind, the one that `within` prefers by list position.
ClosestWithTies(w, r, within(_, _)) ==
    \A kind \in {"npc", "portal", "book"} : \A i \in Eligible(w, kind) :
        LET mine == EffGap(w, r.kind, r.idx)
            other == EffGap(w, kind, i)
        IN /\ r.dist = mine
           /\ mine <= other
           /\ mine = other =>
                /\ KindRank(r.kind) <= KindRank(kind)
                /\ kind = r.kind => within(r.idx, i)

EarlierOrSame(i, j) == i <= j

\* C22: the resolver's result has the least effective distance among all
\* eligible candidates; among equally close ones a person wins over a portal
\* over a book, and within one kind the one earlier in the list wins.
C22_ClosestFirstChecked ==
    (scene.kind = "world" /\ _nearest_interactable(scene).kind # "none") =>
        ClosestWithTies(scene, _nearest_interactable(scene), EarlierOrSame)

\* C23: while writes of the save file fail, every handle_input still ends
\* without an exception, the frame goes on to update, and the scene and the
\* save document in memory are those the same call gives when the write
\* succeeds.
C23_WriteFailureSurvived ==
    [][ (pc = "input" /\ ~fs_ok /\ (pc' # pc \/ crash' # crash)) =>
          LET e == Handle(scene, input_state', events', save, disk, TRUE)
          IN /\ crash' = "none"
             /\ pc' = "update"
             /\ scene' = Installed(e)
             /\ save' = e.save ]_vars

\* C24: a frame with cancel handled by a scene other than the Menu makes a
\* fixed prior scene current in that frame: the Menu from the World scene,
\* the return scene from a dialogue, an overlay, a quiz and the results;
\* and when the frame before it had cancel as well and did not already make
\* the Menu current, this second one does.
C24_CancelLeadsBack ==
    [][ (pc = "input" /\ pc' = "update" /\ input_state'.cancel_pressed) =>
          /\ scene.kind = "world" => scene' = MenuScene
          /\ scene.kind \in {"dialogue", "info", "challenge", "results"} =>
                scene' = scene.return_scene
          /\ (input_state.cancel_pressed /\ scene.kind # "menu") =>
                scene'.kind = "menu" ]_vars

\* The results of the quiz were closed by cancel and the next frame's cancel
\* left the World scene for the Menu.
C24_Witness ==
    /\ hist.tag = "world.cancel" /\ hist.set_id = "blank_1"
    /\ input_state.cancel_pressed /\ scene.kind = "menu" /\ pc = "update"

\* The scenes that retain a scene to return to.
Overlays == {"dialogue", "info", "challenge", "results"}

\* C25: the return scene retained by a dialogue, an overlay, a quiz or the
\* results is always a World scene, so that no scene retains a scene that
\* itself retains one.
C25_ReturnSceneIsWorld ==
    scene.kind \in Overlays =>
        /\ scene.return_scene.kind = "world"
        /\ scene.return_scene.kind \notin Overlays \cup {"menu"}

\* The results of the quiz that the dialogue started are current: the third
\* scene in a row built over the same World scene.
C25_Witness ==
    /\ scene.kind = "results" /\ hist.tag = "challenge.empty" /\ hist.set_id = "blank_1"
    /\ scene.return_scene.kind = "world" /\ scene.return_scene.map_id = "office"

\* The kinds whose prompt label is set in world scene w.
LabelsSet(w) ==
    { k \in {"npc", "portal", "book"} :
        CASE k = "npc" -> w.near_npc_label # NoLabel
          [] k = "portal" -> w.near_portal_label # NoLabel
          [] k = "book" -> w.near_book_label # NoLabel }

\* C26: after a handle_input of the World scene without cancel that leaves
\* it current, at most one of its three labels is set: the one of the kind
\* the resolver returns for the player's position, and none when the
\* resolver returns none; so the label drawn is that one.
C26_OneLabel ==
    [][ /\ (pc = "input" /\ pc' = "update" /\ scene.kind = "world" /\ scene'.kind = "world"
            /\ ~input_state'.cancel_pressed /\ hist'.tag # "world.portal") =>
              LET r == _nearest_interactable(scene')
              IN /\ Cardinality(LabelsSet(scene')) <= 1
                 /\ LabelsSet(scene') = IF r.kind = "none" THEN {} ELSE {r.kind}
                 /\ scene'.x = scene.x /\ scene'.y = scene.y
        /\ (pc = "draw" /\ scene.kind = "world" /\ Cardinality(LabelsSet(scene)) = 1) =>
              screen'.label \in {scene.near_npc_label, scene.near_portal_label,
                                 scene.near_book_label} \ {NoLabel} ]_vars

\* The player has walked out of the person's reach: the book's label is the
\* only one set.
C26_Witness ==
    /\ pc = "update" /\ scene.kind = "world" /\ scene.map_id = "road" /\ scene.x = 57
    /\ hist.tag = "world.near_book" /\ LabelsSet(scene) = {"book"}
    /\ scene.near_book_label = "sign"

\* The number of events `key` among the frame's key events.
RECURSIVE KeyCount(_, _, _)
KeyCount(ev, key, i) ==
    IF i > Len(ev) THEN 0
    ELSE (IF ev[i] = key THEN 1 ELSE 0) + KeyCount(ev, key, i + 1)

\* Selection `after` is what `before` becomes among n choices when the
\* frame's events, all of them up or all of them down, each move it by one
\* and it stops at 0 and at n - 1.
MovedWithinBounds(before, after, ev, n) ==
    LET ups == KeyCount(ev, "K_UP", 1)
        downs == KeyCount(ev, "K_DOWN", 1)
    IN /\ after \in 0..(n - 1)
       /\ (ups = 0 /\ before + downs <= n - 1) => after = before + downs
       /\ (ups = 0 /\ before + downs > n - 1) => after = n - 1
       /\ (downs = 0 /\ before - ups >= 0) => after = before - ups
       /\ (downs = 0 /\ before - ups < 0) => after = 0

FreeAt(m, p) ==
    /\ 0 <= p.x /\ p.x + PLAYER_W <= m.pixel_w
    /\ 0 <= p.y /\ p.y + PLAYER_H <= m.pixel_h
    /\ \A i \in 1..Len(m.colliders) :
          ~Touches([x |-> p.x, y |-> p.y], m.colliders[i])

\* What C29 says of one World update that starts in a state of `starts`:
\* the x step leaves y alone and the y step leaves x alone; an x step that
\* does not end where the displacement leads ends, if a collider was hit,
\* with the player's right edge on a collider's left edge (moving in +x) or
\* its left edge on a collider's right edge (moving in -x); and the y
\* displacement is applied in full when the place it leads to from the end
\* of the x step is free, whether or not the x step was blocked.
AxisStepsIndependent(starts) ==
    (pc = "update" /\ scene.kind = "world" /\ pc' = "draw" /\ starts) =>
        LET m == Map(scene.map_id)
            a == AfterXStep(scene, input_state, dt)
            b == AfterYStep(scene, input_state, dt)
            ix == AxisStep(IntentX(input_state), IntentY(input_state), dt)
            iy == AxisStep(IntentY(input_state), IntentX(input_state), dt)
            led == clamp(scene.x + ix, 0, m.pixel_w - PLAYER_W)
        IN /\ scene'.x = b.x /\ scene'.y = b.y
           /\ a.y = scene.y
           /\ b.x = a.x
           /\ (a.x # led /\ ix > 0) =>
                \E i \in 1..Len(m.colliders) : a.x + PLAYER_W = m.colliders[i].x
           /\ (a.x # led /\ ix < 0) =>
                \E i \in 1..Len(m.colliders) :
                    a.x = m.colliders[i].x + m.colliders[i].w
           /\ FreeAt(m, [x |-> a.x, y |-> scene.y + iy]) => scene'.y = scene.y + iy

\* C29: in every World update the x step changes only the player's x, with
\* the push-back edge to edge, the y step changes only the player's y, and a
\* blocked x step does not cancel the y displacement.
C29_AxisStepsIndependent == [][AxisStepsIndependent(TRUE)]_vars

\* What the Menu scene carries from a cancel to the Load Game: the file.
Kept(dk, map_id, x, y, trust, scores, challenges) ==
    /\ dk.kind = "object"
    /\ dk.doc.world = JWorld("dict", TRUE, map_id)
    /\ dk.doc.player = JPlayer("dict", Num(x), Num(y))
    /\ dk.doc.trust = JMap("dict", trust)
    /\ dk.doc.scores = JMap("dict", scores)
    /\ dk.doc.completed = JCompleted("dict", "list", challenges)

\* C30: a cancel in the World scene on map M at (x, y) followed by the
\* Menu's Load Game makes current a World scene on M at (x, y), with the
\* trust, scores and completed challenges of the moment of the cancel: the
\* cancel writes them all to the file and opens the Menu, the Menu leaves
\* the file alone until an entry is confirmed, and Load Game builds the
\* document and the World scene from the file.
C30_CancelThenLoad ==
    [][/\ (pc = "input" /\ scene.kind = "world" /\ hist'.tag = "world.cancel"
             /\ crash' = "none") =>
            /\ scene'.kind = "menu"
            /\ Kept(disk', scene.map_id, scene.x, scene.y, save.trust, save.scores,
                    save.completed.challenges)
       /\ (pc = "input" /\ scene.kind = "menu" /\ pc' # pc /\ scene'.kind = "menu") =>
            disk' = disk
       /\ (pc = "input" /\ scene.kind = "menu" /\ hist'.tag = "menu.load_game"
             /\ disk.kind = "object" /\ disk.doc.world.t = "dict" /\ disk.doc.world.has_map
             /\ disk.doc.player.t = "dict" /\ disk.doc.trust.t = "dict"
             /\ disk.doc.scores.t = "dict" /\ disk.doc.completed.t = "dict"
             /\ disk.doc.completed.ct = "list"
             /\ Kept(disk, disk.doc.world.map, disk.doc.player.x.v, disk.doc.player.y.v,
                     disk.doc.trust.v, disk.doc.scores.v, disk.doc.completed.challenges)) =>
            /\ crash' = "none"
            /\ scene'.kind = "world"
            /\ scene'.map_id = disk.doc.world.map
            /\ scene'.x = disk.doc.player.x.v
            /\ scene'.y = disk.doc.player.y.v
            /\ save'.trust = disk.doc.trust.v
            /\ save'.scores = disk.doc.scores.v
            /\ save'.completed.challenges = disk.doc.completed.challenges
      ]_vars

\* Load Game after a walk and a cancel: the World scene is back where the
\* player had walked to, with the trust of the save.
C30_Witness ==
    /\ pc = "update" /\ hist.tag = "menu.load_game" /\ crash = "none"
    /\ scene.kind = "world" /\ scene.x # 200
    /\ Kept(disk, scene.map_id, scene.x, scene.y, save.trust, save.scores,
            save.completed.challenges)
    /\ save.trust # EmptyMap

\* C31: whenever a Dialogue scene stops being current (by cancel, by
\* launching a quiz, or by ending on a missing node), the save document has
\* been written in that call: the trust map in the file equals the trust
\* map in memory.
C31_DialogueExitPersists ==
    [][(pc = "input" /\ scene.kind = "dialogue" /\ pc' # pc
          /\ scene'.kind # "dialogue") =>
            /\ hist'.tag \in {"dialogue.cancel", "dialogue.start_challenge", "dialogue.end"}
            /\ disk'.kind = "object"
            /\ disk'.doc.trust = JMap("dict", save'.trust)
            /\ disk' = json_dump(save')
      ]_vars

\* A dialogue has just been left by cancel with a trust entry that the file
\* now holds.
C31_Witness ==
    /\ pc = "update" /\ hist.tag = "dialogue.cancel" /\ scene.kind = "world"
    /\ save.trust # EmptyMap
    /\ disk.doc.trust = JMap("dict", save.trust)

\* C32: a committed choice is final: when the previous frame's confirm
\* applied the trust delta of a choice at this node and the dialogue is
\* still at this node, handling the next frame leaves the trust map as it
\* is.
C32_CommittedChoiceFinal ==
    [][(pc = "input" /\ scene.kind = "dialogue" /\ pc' # pc
          /\ hist.tag = "dialogue.choice" /\ hist.node = scene.node_id) =>
            save'.trust = save.trust
      ]_vars

\* C33: while a Dialogue, overlay, Quiz or Results scene is current, the
\* World scene it retains (player rectangle, camera, prompt labels) and the
\* save document's player.x, player.y and world.map do not change, through
\* every step of the frame and from one such scene to the next; the World
\* scene that becomes current again is the retained one.
C33_RetainedWorldUntouched ==
    [][(scene.kind \in Overlays /\ crash' = "none") =>
          /\ save'.player = save.player
          /\ save'.world = save.world
          /\ \/ scene'.kind \in Overlays /\ scene'.return_scene = scene.return_scene
             \/ scene' = scene.return_scene
      ]_vars

\* The results of a quiz are current over a World scene whose label and
\* position are those of the moment the dialogue was opened.
C33_Witness ==
    /\ scene.kind = "results" /\ pc = "draw"
    /\ scene.return_scene.kind = "world"
    /\ scene.return_scene.near_npc_label # NoLabel
    /\ save.player = [x |-> Num(scene.return_scene.x), y |-> Num(scene.return_scene.y)]
    /\ save.world.map = scene.return_scene.map_id

\* Maps f and g are the same apart from the entries of the keys in ks.
SameExcept(f, g, ks) ==
    /\ (DOMAIN f) \ ks = (DOMAIN g) \ ks
    /\ \A k \in (DOMAIN f) \ ks : f[k] = g[k]

\* C34: each scene writes only its own part of the save document: the
\* Dialogue scene only trust[npc_id], the Quiz scene only scores.total,
\* scores[category] and completed.challenges, the World scene only
\* world.map and player.x/y, the overlay and the Results scene nothing.
C34_OwnPartOnly ==
    [][/\ scene.kind = "dialogue" =>
            /\ save'.world = save.world /\ save'.player = save.player
            /\ save'.scores = save.scores /\ save'.completed = save.completed
            /\ SameExcept(save.trust, save'.trust, {scene.npc_id})
       /\ scene.kind = "challenge" =>
            /\ save'.world = save.world /\ save'.player = save.player
            /\ save'.trust = save.trust
            /\ SameExcept(save.scores, save'.scores, {"total", scene.category})
       /\ scene.kind = "world" =>
            /\ save'.trust = save.trust /\ save'.scores = save.scores
            /\ save'.completed = save.completed
       /\ scene.kind \in {"info", "results"} => save' = save
      ]_vars

\* A quiz has been finished with points, in a save that holds a trust
\* entry: the results are shown.
C34_Witness ==
    /\ scene.kind = "results" /\ pc = "update"
    /\ save.scores # DefaultScores
    /\ save.completed.challenges # << >>
    /\ save.trust # EmptyMap

\* The node ids that one step of the dialogue can lead to from node.
Successors(node) ==
    {node.next} \cup {node.choices[i].next : i \in 1..Len(node.choices)}

\* C35: one frame's input performs at most one step.  In a Dialogue scene
\* the node id changes only with a confirm and only to a direct successor
\* of the current node, and a quiz that is launched is the action of the
\* node the frame started at; in a Quiz scene a call either evaluates the
\* answer (index unchanged, Feedback on) or leaves Feedback (index one up,
\* points and scores unchanged); a Dialogue, Quiz or Results scene that
\* becomes current is in its constructed state at the end of the call.
C35_OneStepPerConfirm ==
    [][(pc = "input" /\ pc' # pc) =>
        /\ (scene.kind = "dialogue" /\ scene'.kind = "dialogue"
              /\ scene'.node_id # scene.node_id) =>
               /\ input_state'.confirm_pressed
               /\ scene'.node_id \in Successors(NodeOf(scene)) \ {""}
        /\ (scene.kind = "dialogue" /\ scene'.kind = "challenge") =>
               scene'.challenge_set_id = NodeOf(scene).action
        /\ (scene.kind = "challenge" /\ scene'.kind = "challenge") =>
               /\ scene.showing_feedback =>
                      /\ scene'.qi \in {scene.qi, scene.qi + 1}
                      /\ scene'.qi # scene.qi => input_state'.confirm_pressed
                      /\ scene'.points_earned = scene.points_earned
                      /\ save'.scores = save.scores
                      /\ hist'.answers = hist.answers
               /\ ~scene.showing_feedback =>
                      /\ scene'.qi = scene.qi
                      /\ scene'.showing_feedback = input_state'.confirm_pressed
        /\ (scene.kind = "challenge" /\ scene'.kind = "results") =>
               /\ scene'.points = scene.points_earned
               /\ save'.scores = save.scores
               /\ hist'.answers = hist.answers
        /\ (scene'.kind = "dialogue" /\ scene.kind # "dialogue") =>
               /\ scene' = DialogueScene(scene'.return_scene, scene'.dialogue_path,
                                          scene'.npc_id)
               /\ save'.trust = save.trust
        /\ (scene'.kind = "challenge" /\ scene.kind # "challenge") =>
               /\ scene' = ChallengeScene(scene'.return_scene, scene'.challenge_set_id)
               /\ save'.scores = save.scores
               /\ hist'.answers = << >>
      ]_vars

\* The second question of a quiz is being answered: one confirm was
\* evaluated, the next one left the feedback.
C35_Witness ==
    /\ scene.kind = "challenge" /\ scene.qi = 1 /\ ~scene.showing_feedback
    /\ Len(hist.answers) = 1 /\ input_state.confirm_pressed /\ pc = "update"

\* C36: whenever a Quiz scene with a non-empty question list is current,
\* before handle_input, before update and before draw, its question index
\* is at least 0 and less than the number of questions.
C36_QuestionIndexInRange ==
    (scene.kind = "challenge" /\ crash = "none"
       /\ Len(Challenge(scene.challenge_set_id).questions) > 0) =>
        /\ scene.qi >= 0
        /\ scene.qi < Len(Challenge(scene.challenge_set_id).questions)

\* The feedback of the last of several questions is about to be drawn.
C36_Witness ==
    /\ scene.kind = "challenge" /\ pc = "draw" /\ scene.showing_feedback
    /\ scene.qi = Len(Challenge(scene.challenge_set_id).questions) - 1
    /\ scene.qi > 0

\* C37: completed.challenges changes only in the call that confirms the
\* feedback of the last question of a quiz with questions, by the id of
\* that quiz; a cancel of the quiz and a quiz without questions leave
\* completed.challenges and the scores as they are.
C37_CompletedOnlyAtEnd ==
    [][/\ save'.completed # save.completed =>
            /\ pc = "input" /\ scene.kind = "challenge" /\ scene.showing_feedback
            /\ input_state'.confirm_pressed /\ ~input_state'.cancel_pressed
            /\ Len(Challenge(scene.challenge_set_id).questions) > 0
            /\ scene.qi = Len(Challenge(scene.challenge_set_id).questions) - 1
            /\ scene'.kind = "results"
            /\ save'.completed.challenges =
                   Append(save.completed.challenges, scene.challenge_set_id)
       /\ (pc = "input" /\ pc' # pc /\ scene.kind = "challenge"
             /\ (input_state'.cancel_pressed
                   \/ Len(Challenge(scene.challenge_set_id).questions) = 0)) =>
            /\ save'.completed = save.completed
            /\ save'.scores = save.scores
      ]_vars

\* A quiz was cancelled after a correct answer: the points are in scores,
\* its id is not among the completed.
C37_Witness ==
    /\ pc = "update" /\ hist.tag = "challenge.cancel" /\ scene.kind = "world"
    /\ hist.set_id = "phishing_1"
    /\ save.scores["total"] > 0
    /\ \A i \in 1..Len(save.completed.challenges) :
           save.completed.challenges[i] # "phishing_1"

\* The sum of the entries of scores other than "total".
RECURSIVE SumOf(_, _)
SumOf(scores, ks) ==
    IF ks = {} THEN 0
    ELSE LET k == CHOOSE x \in ks : TRUE
         IN scores[k] + SumOf(scores, ks \ {k})

\* C38: in a game that started from the New Game scores, scores.total is
\* the sum of the other entries of scores.
C38_TotalIsSum ==
    save.scores["total"] = SumOf(save.scores, (DOMAIN save.scores) \ {"total"})

\* The branches of handle_input that call save_game.
SavingTags ==
    {"menu.new_game", "world.cancel", "world.portal", "dialogue.cancel",
     "dialogue.start_challenge", "dialogue.end", "challenge.cancel",
     "challenge.answer", "challenge.finish"}

\* C39: every document written to the file pairs a map id with a position
\* of the player on that map: the map and position of the World scene that
\* is current or retained when the call starts (for New Game, of the World
\* scene it opens).  A portal writes the source map with the source
\* position.
C39_WrittenLocationConsistent ==
    [][(\/ disk' # disk
        \/ pc = "input" /\ pc' # pc /\ crash' = "none" /\ hist'.tag \in SavingTags) =>
          \E w \in { IF scene.kind = "menu" THEN scene'
                      ELSE IF scene.kind = "world" THEN scene
                      ELSE scene.return_scene } :
            /\ w.kind = "world"
            /\ disk'.kind = "object"
            /\ disk'.doc.world = JWorld("dict", TRUE, w.map_id)
            /\ disk'.doc.player = JPlayer("dict", Num(w.x), Num(w.y))
      ]_vars

\* A portal has just been taken from "city" to "house_1": the file holds
\* "city" with the position at the portal, the World scene is on the
\* target map at the target position.
C39_Witness ==
    /\ pc = "update" /\ hist.tag = "world.portal" /\ crash = "none"
    /\ scene.kind = "world" /\ scene.map_id = "house_1"
    /\ disk.kind = "object" /\ disk.doc.world.map = "city"
    /\ disk.doc.player.x # Num(scene.x)

====
